---- MODULE Spec2Model ----
(***************************************************************************)
(* A model of the Talos demo colony simulation: the tile grid, the A*      *)
(* pathfinder, room detection, the item-stack ledger, the task queue and   *)
(* its scheduler, and the per-frame colonist update.                       *)
(***************************************************************************)
EXTENDS Integers, Sequences, FiniteSets, TLC

VARIABLES tiles, colonists, tasks, itemStacks, stockpiles, rooms,
          selectedRoom, nextTaskId, nextStackId, nextRoomId, events, probe

vars == <<tiles, colonists, tasks, itemStacks, stockpiles, rooms,
          selectedRoom, nextTaskId, nextStackId, nextRoomId, events, probe>>

----------------------------------------------------------------------------
(* Bounds of the model.  CONFIG.mapWidth x CONFIG.mapHeight is 30 x 22 in  *)
(* the source; the grid is kept small here.                                *)
MapWidth == 3
MapHeight == 3
\* most non-open cells on a grid drawn for the pathfinder / room detector
MaxObstacles == 4
\* CONFIG.tileSize is 32 pixels in the source: a colonist crosses a tile in
\* TileSize / ColonistSpeed frames
TileSize == 4
\* CONFIG.gatherTime, buildTime and demolishTime are 60, 45 and 30 frames
GatherTime == 2
BuildTime == 2
DemolishTime == 2
\* CONFIG.wanderRadius (the configuration that sets it is not in the source tree)
WanderRadius == 1
\* clicks, cancellations and wander starts in one run
MaxEvents == 2
\* colonists in the simulation (CONFIG.startingColonists is 3)
NumColonists == 2
\* task ids handed out before the simulation is stopped
MaxTaskId == 8
\* item stacks, stack amounts and cost amounts drawn for payCost
MaxStacks == 3
MaxAmount == 2
MaxCost == 3

\* CONFIG.colonistSpeed
ColonistSpeed == 2

----------------------------------------------------------------------------
(* Tile tags (tiles.js TILE) and their metadata (TILE_DATA).               *)
GRASS == 0
TREE == 1
ROCK == 2
WALL == 3
FLOOR == 4
STOCKPILE == 5
STUMP == 6
RUBBLE == 7
DOOR == 8
FOUNDATION == 9

WalkableTiles == {GRASS, FLOOR, STOCKPILE, STUMP, RUBBLE, DOOR}
BuildableTiles == {GRASS, STUMP, RUBBLE}
GatherableTiles == {TREE, ROCK}
DemolishableTiles == {WALL, DOOR}

Cells == (0 .. MapWidth - 1) \X (0 .. MapHeight - 1)

\* the "no cell" / null result of a cell-valued function
NoCell == <<-1, -1>>
\* the null result of findPath (an array is never this value)
NoPath == <<NoCell>>

Abs(n) == IF n < 0 THEN -n ELSE n

isInBounds(x, y) == x >= 0 /\ x < MapWidth /\ y >= 0 /\ y < MapHeight

isWalkable(tl, x, y) == isInBounds(x, y) /\ tl[<<x, y>>] \in WalkableTiles

\* the four directions in the order the source lists them: up, down, left, right
Directions == << <<0, -1>>, <<0, 1>>, <<-1, 0>>, <<1, 0>> >>

\* getNeighbors and getWalkableAdjacent: the walkable 4-neighbours, in order
getWalkableAdjacent(tl, x, y) ==
    LET all == [i \in 1 .. 4 |-> <<x + Directions[i][1], y + Directions[i][2]>>]
        Ok(c) == isWalkable(tl, c[1], c[2])
    IN  SelectSeq(all, Ok)

\* a variant that steps onto any neighbour on the map, walkable or not
getNeighbors_Any(tl, x, y) ==
    LET all == [i \in 1 .. 4 |-> <<x + Directions[i][1], y + Directions[i][2]>>]
        OnMap(c) == c \in Cells
    IN  SelectSeq(all, OnMap)

getNeighbors(tl, x, y) == getWalkableAdjacent(tl, x, y)

heuristic(ax, ay, bx, by) == Abs(ax - bx) + Abs(ay - by)

----------------------------------------------------------------------------
(* A*.  The open set is a JavaScript Map: iteration is in insertion order  *)
(* and overwriting a key keeps its place, so it is a sequence of nodes.    *)
(* A node's parent chain is kept as the path from the start to the node.   *)

\* index of the first node with the lowest f (a later node wins only if strictly lower)
\* a variant that takes the node added last instead of the one with the lowest f
LowestF_Newest(open, i, best) == Len(open)

RECURSIVE LowestF(_, _, _)
LowestF(open, i, best) ==
    IF i > Len(open) THEN best
    ELSE LowestF(open, i + 1, IF open[i].f < open[best].f THEN i ELSE best)

RemoveAt(s, i) == [j \in 1 .. Len(s) - 1 |-> IF j < i THEN s[j] ELSE s[j + 1]]

IndexOfCell(open, c) ==
    IF \E i \in 1 .. Len(open) : open[i].cell = c
    THEN CHOOSE i \in 1 .. Len(open) : open[i].cell = c
    ELSE 0

\* one neighbour relaxed against the open set
Relax(open, closed, cur, nb, goal) ==
    IF nb \in closed THEN open
    ELSE LET g == cur.g + 1
             k == IndexOfCell(open, nb)
             node == [cell |-> nb, g |-> g,
                      f |-> g + heuristic(nb[1], nb[2], goal[1], goal[2]),
                      path |-> Append(cur.path, nb)]
         IN  IF k = 0 THEN Append(open, node)
             ELSE IF g < open[k].g THEN [open EXCEPT ![k] = node]
             ELSE open

RECURSIVE RelaxAll(_, _, _, _, _, _)
RelaxAll(open, closed, cur, nbs, i, goal) ==
    IF i > Len(nbs) THEN open
    ELSE RelaxAll(Relax(open, closed, cur, nbs[i], goal), closed, cur, nbs, i + 1, goal)

\* the while loop of findPath; expanded counts its iterations
RECURSIVE AStarLoop(_, _, _, _, _)
AStarLoop(tl, open, closed, goal, expanded) ==
    IF Len(open) = 0 THEN [path |-> NoPath, expanded |-> expanded]
    ELSE LET i == LowestF(open, 2, 1)
             cur == open[i]
         IN  IF cur.cell = goal
             THEN [path |-> cur.path, expanded |-> expanded + 1]
             ELSE AStarLoop(tl,
                            RelaxAll(RemoveAt(open, i), closed \cup {cur.cell}, cur,
                                     getNeighbors(tl, cur.cell[1], cur.cell[2]), 1, goal),
                            closed \cup {cur.cell}, goal, expanded + 1)

\* the neighbour of a non-walkable goal that findPath substitutes: the first
\* one with the lowest Manhattan distance to the start
RECURSIVE ClosestTo(_, _, _, _, _)
ClosestTo(adj, i, best, sx, sy) ==
    IF i > Len(adj) THEN adj[best]
    ELSE ClosestTo(adj, i + 1,
                   IF heuristic(sx, sy, adj[i][1], adj[i][2])
                        < heuristic(sx, sy, adj[best][1], adj[best][2])
                   THEN i ELSE best,
                   sx, sy)

\* the goal findPath searches for (NoCell when it gives up before searching)
SubstituteGoal(tl, sx, sy, gx, gy) ==
    IF isWalkable(tl, gx, gy) THEN <<gx, gy>>
    ELSE LET adj == getWalkableAdjacent(tl, gx, gy)
         IN  IF Len(adj) = 0 THEN NoCell ELSE ClosestTo(adj, 1, 1, sx, sy)

\* findPath with the number of loop iterations it ran
findPathRun(tl, sx, sy, gx, gy) ==
    LET goal == SubstituteGoal(tl, sx, sy, gx, gy)
    IN  IF goal = NoCell THEN [path |-> NoPath, expanded |-> 0]
        ELSE IF <<sx, sy>> = goal THEN [path |-> << <<sx, sy>> >>, expanded |-> 0]
        ELSE AStarLoop(tl,
                       << [cell |-> <<sx, sy>>, g |-> 0,
                           f |-> heuristic(sx, sy, goal[1], goal[2]),
                           path |-> << <<sx, sy>> >>] >>,
                       {}, goal, 0)

findPath(tl, sx, sy, gx, gy) == findPathRun(tl, sx, sy, gx, gy).path

\* a variant that offers the target itself when it has no walkable neighbour
findWorkPosition_Target(tl, tx, ty, wx, wy) ==
    LET adj == getWalkableAdjacent(tl, tx, ty)
    IN  IF Len(adj) = 0 THEN <<tx, ty>>
        ELSE IF \E i \in 1 .. Len(adj) : adj[i] = <<wx, wy>> THEN <<wx, wy>>
        ELSE ClosestTo(adj, 1, 1, wx, wy)

\* a variant that takes the first walkable neighbour of the target
findWorkPosition_First(tl, tx, ty, wx, wy) ==
    LET adj == getWalkableAdjacent(tl, tx, ty)
    IN  IF Len(adj) = 0 THEN NoCell ELSE adj[1]

findWorkPosition(tl, tx, ty, wx, wy) ==
    LET adj == getWalkableAdjacent(tl, tx, ty)
    IN  IF Len(adj) = 0 THEN NoCell
        ELSE IF \E i \in 1 .. Len(adj) : adj[i] = <<wx, wy>> THEN <<wx, wy>>
        ELSE ClosestTo(adj, 1, 1, wx, wy)

----------------------------------------------------------------------------
(* Room detection (rooms.js).                                              *)

isWall(tl, x, y) == isInBounds(x, y) /\ tl[<<x, y>>] = WALL

isInterior(tl, x, y) ==
    isInBounds(x, y) /\ tl[<<x, y>>] # WALL /\ tl[<<x, y>>] # TREE /\ tl[<<x, y>>] # ROCK

OnMapEdge(x, y) == x = 0 \/ x = MapWidth - 1 \/ y = 0 \/ y = MapHeight - 1

\* the while loop of floodFill: an explicit stack, popped from its end
RECURSIVE FloodLoop(_, _, _, _, _)
FloodLoop(tl, stack, visited, acc, touchesEdge) ==
    IF Len(stack) = 0
    THEN [tiles |-> acc, touchesEdge |-> touchesEdge, visited |-> visited]
    ELSE LET c == stack[Len(stack)]
             x == c[1]
             y == c[2]
             rest == SubSeq(stack, 1, Len(stack) - 1)
         IN  IF c \in visited THEN FloodLoop(tl, rest, visited, acc, touchesEdge)
             ELSE IF ~isInBounds(x, y) THEN FloodLoop(tl, rest, visited, acc, TRUE)
             ELSE IF isWall(tl, x, y) THEN FloodLoop(tl, rest, visited, acc, touchesEdge)
             ELSE IF ~isInterior(tl, x, y) THEN FloodLoop(tl, rest, visited, acc, touchesEdge)
             ELSE FloodLoop(tl,
                            rest \o << <<x + 1, y>>, <<x - 1, y>>, <<x, y + 1>>, <<x, y - 1>> >>,
                            visited \cup {c}, Append(acc, c),
                            touchesEdge \/ OnMapEdge(x, y))

\* a variant that forgets whether the fill met the map edge
floodFill_EdgeBlind(tl, startX, startY, visited) ==
    [FloodLoop(tl, << <<startX, startY>> >>, visited, <<>>, FALSE) EXCEPT !.touchesEdge = FALSE]

floodFill(tl, startX, startY, visited) ==
    FloodLoop(tl, << <<startX, startY>> >>, visited, <<>>, FALSE)

SeqRange(s) == {s[i] : i \in 1 .. Len(s)}

AppendNew(s, e) == IF e \in SeqRange(s) THEN s ELSE Append(s, e)

\* findBoundingWalls: the wall cells 4-adjacent to a member cell, once each
RECURSIVE WallsLoop(_, _, _, _, _)
WallsLoop(tl, cells, i, k, acc) ==
    IF i > Len(cells) THEN acc
    ELSE IF k > 4 THEN WallsLoop(tl, cells, i + 1, 1, acc)
    ELSE LET x == cells[i][1]
             y == cells[i][2]
             n == << <<x + 1, y>>, <<x - 1, y>>, <<x, y + 1>>, <<x, y - 1>> >>[k]
         IN  WallsLoop(tl, cells, i, k + 1,
                       IF isWall(tl, n[1], n[2]) THEN AppendNew(acc, n) ELSE acc)

\* a variant that skips the first neighbour of the first cell
findBoundingWalls_Skip(tl, cells) == WallsLoop(tl, cells, 1, 2, <<>>)

findBoundingWalls(tl, cells) == WallsLoop(tl, cells, 1, 1, <<>>)

SetMin(S) == CHOOSE m \in S : \A n \in S : m <= n
SetMax(S) == CHOOSE m \in S : \A n \in S : m >= n

getBounds(cells) ==
    LET xs == {cells[i][1] : i \in 1 .. Len(cells)}
        ys == {cells[i][2] : i \in 1 .. Len(cells)}
    IN  [minX |-> SetMin(xs), minY |-> SetMin(ys), maxX |-> SetMax(xs), maxY |-> SetMax(ys),
         width |-> SetMax(xs) - SetMin(xs) + 1, height |-> SetMax(ys) - SetMin(ys) + 1]

\* the scan of detectRooms, row by row; k numbers the cells 0 .. W*H-1
RECURSIVE ScanLoop(_, _, _, _, _)
ScanLoop(tl, k, visited, newRooms, nextId) ==
    IF k >= MapWidth * MapHeight THEN [rooms |-> newRooms, nextRoomId |-> nextId]
    ELSE LET x == k % MapWidth
             y == k \div MapWidth
         IN  IF <<x, y>> \in visited \/ isWall(tl, x, y) \/ ~isInterior(tl, x, y)
             THEN ScanLoop(tl, k + 1, visited, newRooms, nextId)
             ELSE LET result == floodFill(tl, x, y, visited)
                  IN  IF ~result.touchesEdge /\ Len(result.tiles) > 0
                      THEN ScanLoop(tl, k + 1, result.visited,
                                    Append(newRooms,
                                           [id |-> nextId,
                                            tiles |-> result.tiles,
                                            walls |-> findBoundingWalls(tl, result.tiles),
                                            bounds |-> getBounds(result.tiles),
                                            size |-> Len(result.tiles),
                                            name |-> nextId + 1]),
                                    nextId + 1)
                      ELSE ScanLoop(tl, k + 1, result.visited, newRooms, nextId)

\* detectRooms: the new room list, the id counter, and the selection, which is
\* dropped when its id is not among the new rooms
\* a variant that scans only while no room id has been handed out
detectRooms_Once(tl, nextId, selected) ==
    LET scan == IF nextId = 0 THEN ScanLoop(tl, 0, {}, <<>>, nextId)
                ELSE [rooms |-> <<>>, nextRoomId |-> nextId]
    IN  [rooms |-> scan.rooms,
         nextRoomId |-> scan.nextRoomId,
         selectedRoom |-> IF selected # -1
                             /\ ~\E i \in 1 .. Len(scan.rooms) : scan.rooms[i].id = selected
                          THEN -1 ELSE selected]

\* a variant that leaves the selection alone
detectRooms_KeepSelection(tl, nextId, selected) ==
    LET scan == ScanLoop(tl, 0, {}, <<>>, nextId)
    IN  [rooms |-> scan.rooms, nextRoomId |-> scan.nextRoomId, selectedRoom |-> selected]

detectRooms(tl, nextId, selected) ==
    LET scan == ScanLoop(tl, 0, {}, <<>>, nextId)
    IN  [rooms |-> scan.rooms,
         nextRoomId |-> scan.nextRoomId,
         selectedRoom |-> IF selected # -1
                             /\ ~\E i \in 1 .. Len(scan.rooms) : scan.rooms[i].id = selected
                          THEN -1 ELSE selected]

----------------------------------------------------------------------------
(* Item stacks and the resource ledger (items.js, state.js).  A stack is   *)
(* [id, type, amount, location, x, y]; a cost map is the sequence of its   *)
(* entries [resource, amount] in insertion order.                          *)

ResourceTypes == {"wood", "stone"}

createItemStack(id, type, amount, location, x, y) ==
    [id |-> id, type |-> type, amount |-> amount, location |-> location, x |-> x, y |-> y]

RECURSIVE SumAmounts(_, _, _)
SumAmounts(stacks, i, type) ==
    IF i > Len(stacks) THEN 0
    ELSE (IF stacks[i].location = "stockpile" /\ stacks[i].type = type
          THEN stacks[i].amount ELSE 0) + SumAmounts(stacks, i + 1, type)

getTotalStockpileResources(stacks, type) == SumAmounts(stacks, 1, type)

\* getResources knows wood and stone only; any other key reads as 0
ResourceOrZero(stacks, resource) ==
    IF resource \in ResourceTypes THEN getTotalStockpileResources(stacks, resource) ELSE 0

canAfford(stacks, cost) ==
    \A i \in 1 .. Len(cost) : ~(ResourceOrZero(stacks, cost[i].resource) < cost[i].amount)

\* the inner loop of payCost for one resource type
RECURSIVE DeductLoop(_, _, _, _)
DeductLoop(stacks, i, type, remaining) ==
    IF i > Len(stacks) THEN stacks
    ELSE IF stacks[i].location # "stockpile" \/ stacks[i].type # type
         THEN DeductLoop(stacks, i + 1, type, remaining)
    ELSE IF remaining <= 0 THEN stacks
    ELSE IF stacks[i].amount <= remaining
         THEN DeductLoop([stacks EXCEPT ![i].amount = 0], i + 1, type,
                         remaining - stacks[i].amount)
    ELSE DeductLoop([stacks EXCEPT ![i].amount = stacks[i].amount - remaining], i + 1, type, 0)

PositiveAmount(s) == s.amount > 0

\* the outer loop of payCost: deduct one entry, then drop the empty stacks
RECURSIVE PayLoop(_, _, _)
PayLoop(stacks, cost, i) ==
    IF i > Len(cost) THEN stacks
    ELSE PayLoop(SelectSeq(DeductLoop(stacks, 1, cost[i].resource, cost[i].amount),
                           PositiveAmount),
                 cost, i + 1)

\* a variant without the affordability check
payCost_Unchecked(stacks, cost) == [ok |-> TRUE, itemStacks |-> PayLoop(stacks, cost, 1)]

\* a variant that deducts the entries but keeps the emptied stacks
payCost_NoCleanup(stacks, cost) ==
    IF ~canAfford(stacks, cost) THEN [ok |-> FALSE, itemStacks |-> stacks]
    ELSE LET E(i) == IF i <= Len(cost) THEN cost[i] ELSE [resource |-> "none", amount |-> 0]
         IN  [ok |-> TRUE,
              itemStacks |->
                  DeductLoop(DeductLoop(stacks, 1, E(1).resource, E(1).amount),
                             1, E(2).resource, E(2).amount)]

payCost(stacks, cost) ==
    IF ~canAfford(stacks, cost) THEN [ok |-> FALSE, itemStacks |-> stacks]
    ELSE [ok |-> TRUE, itemStacks |-> PayLoop(stacks, cost, 1)]

\* index of the first storage stack at a cell, 0 when there is none
findStockpileStackAt(stacks, x, y) ==
    LET hits == {i \in 1 .. Len(stacks) :
                    stacks[i].location = "stockpile" /\ stacks[i].x = x /\ stacks[i].y = y}
    IN  IF hits = {} THEN 0 ELSE SetMin(hits)

IsGround(s) == s.location = "ground"

getGroundStacks(stacks) == SelectSeq(stacks, IsGround)

\* the loop of findAvailableStockpile; a best of NoCell stands for distance Infinity
RECURSIVE StockpileLoop(_, _, _, _, _, _, _, _, _, _)
StockpileLoop(stacks, sps, i, type, fromX, fromY, bestMatch, bestMatchDist, bestEmpty, bestEmptyDist) ==
    IF i > Len(sps) THEN (IF bestMatch # NoCell THEN bestMatch ELSE bestEmpty)
    ELSE LET sp == sps[i]
             k == findStockpileStackAt(stacks, sp[1], sp[2])
             dist == Abs(sp[1] - fromX) + Abs(sp[2] - fromY)
         IN  IF k # 0
             THEN IF stacks[k].type = type /\ (bestMatch = NoCell \/ dist < bestMatchDist)
                  THEN StockpileLoop(stacks, sps, i + 1, type, fromX, fromY,
                                     sp, dist, bestEmpty, bestEmptyDist)
                  ELSE StockpileLoop(stacks, sps, i + 1, type, fromX, fromY,
                                     bestMatch, bestMatchDist, bestEmpty, bestEmptyDist)
             ELSE IF bestEmpty = NoCell \/ dist < bestEmptyDist
                  THEN StockpileLoop(stacks, sps, i + 1, type, fromX, fromY,
                                     bestMatch, bestMatchDist, sp, dist)
                  ELSE StockpileLoop(stacks, sps, i + 1, type, fromX, fromY,
                                     bestMatch, bestMatchDist, bestEmpty, bestEmptyDist)

\* a variant that measures every distance from the map's origin
findAvailableStockpile_FromOrigin(stacks, sps, type, fromX, fromY) ==
    StockpileLoop(stacks, sps, 1, type, 0, 0, NoCell, 0, NoCell, 0)

findAvailableStockpile(stacks, sps, type, fromX, fromY) ==
    StockpileLoop(stacks, sps, 1, type, fromX, fromY, NoCell, 0, NoCell, 0)

----------------------------------------------------------------------------
(* Colonists, tasks and the building catalogue (colonist.js, config.js).   *)
(* -1 stands for null in a numeric field, "none" in a string field.        *)

NoTask ==
    [id |-> -1, type |-> "none", x |-> -1, y |-> -1, resource |-> "none",
     buildType |-> "none", stackId |-> -1, assigned |-> -1, followUp |-> -1,
     originalTile |-> -1, pendingAfterDemolish |-> FALSE]

NoCarry == [type |-> "none", amount |-> 0]

createColonist(id, pixelX, pixelY) ==
    [id |-> id, x |-> pixelX, y |-> pixelY, task |-> NoTask, carrying |-> NoCarry,
     workProgress |-> 0, path |-> <<>>, pathIndex |-> 0, targetX |-> -1, targetY |-> -1,
     wandering |-> FALSE, carryingStackId |-> -1]

BuildTypes == {"wall", "floor", "door", "stockpile"}

BuildingCost(buildType) ==
    CASE buildType = "wall" -> << [resource |-> "stone", amount |-> 1] >>
      [] buildType = "floor" -> << [resource |-> "wood", amount |-> 1] >>
      [] buildType = "door" -> << [resource |-> "wood", amount |-> 2] >>
      [] OTHER -> <<>>

BuildingTile(buildType) ==
    CASE buildType = "wall" -> WALL
      [] buildType = "floor" -> FLOOR
      [] buildType = "door" -> DOOR
      [] OTHER -> STOCKPILE

getResourceType(tile) ==
    IF tile = TREE THEN "wood" ELSE IF tile = ROCK THEN "stone" ELSE "none"

getDepletedTile(tile) ==
    IF tile = TREE THEN STUMP ELSE IF tile = ROCK THEN RUBBLE ELSE GRASS

tileToPixel(t) == t * TileSize + TileSize \div 2

pixelToTile(p) == p \div TileSize

getColonistTile(c) == <<pixelToTile(c.x), pixelToTile(c.y)>>

isIdle(c) == c.task = NoTask

isCarrying(c) == c.carrying # NoCarry

(* The simulation state as one record, threaded through the operations.    *)
State ==
    [tiles |-> tiles, colonists |-> colonists, tasks |-> tasks, itemStacks |-> itemStacks,
     stockpiles |-> stockpiles, rooms |-> rooms, selectedRoom |-> selectedRoom,
     nextTaskId |-> nextTaskId, nextStackId |-> nextStackId, nextRoomId |-> nextRoomId]

\* a task object is shared by reference between the queue and its holder: a
\* write to it is made to every copy with its id
SetAssigned(st, id, who) ==
    [st EXCEPT
       !.tasks = [i \in 1 .. Len(st.tasks) |->
                    IF st.tasks[i].id = id THEN [st.tasks[i] EXCEPT !.assigned = who]
                    ELSE st.tasks[i]],
       !.colonists = [i \in 1 .. Len(st.colonists) |->
                        IF st.colonists[i].task.id = id /\ id # -1
                        THEN [st.colonists[i] EXCEPT !.task.assigned = who]
                        ELSE st.colonists[i]]]

SetOriginalTile(st, id, tile) ==
    [st EXCEPT
       !.tasks = [i \in 1 .. Len(st.tasks) |->
                    IF st.tasks[i].id = id THEN [st.tasks[i] EXCEPT !.originalTile = tile]
                    ELSE st.tasks[i]],
       !.colonists = [i \in 1 .. Len(st.colonists) |->
                        IF st.colonists[i].task.id = id /\ id # -1
                        THEN [st.colonists[i] EXCEPT !.task.originalTile = tile]
                        ELSE st.colonists[i]]]

\* a variant that leaves route, target and progress as they were
clearTask_KeepRoute(st, ci, unassign) ==
    LET st1 == IF unassign /\ st.colonists[ci].task # NoTask
               THEN SetAssigned(st, st.colonists[ci].task.id, -1)
               ELSE st
    IN  [st1 EXCEPT !.colonists[ci].task = NoTask]

\* a variant that never writes the task's assigned field back to null
clearTask_KeepAssigned(st, ci, unassign) ==
    [st EXCEPT !.colonists[ci] =
        [st.colonists[ci] EXCEPT !.task = NoTask, !.workProgress = 0, !.path = <<>>,
                                 !.pathIndex = 0, !.targetX = -1, !.targetY = -1]]

clearTask(st, ci, unassign) ==
    LET st1 == IF unassign /\ st.colonists[ci].task # NoTask
               THEN SetAssigned(st, st.colonists[ci].task.id, -1)
               ELSE st
    IN  [st1 EXCEPT !.colonists[ci] =
            [st1.colonists[ci] EXCEPT !.task = NoTask, !.workProgress = 0, !.path = <<>>,
                                      !.pathIndex = 0, !.targetX = -1, !.targetY = -1]]

\* removeTask: the task object is found by identity, which its id stands for
removeTask(st, id) ==
    LET hits == {i \in 1 .. Len(st.tasks) : st.tasks[i].id = id}
    IN  IF hits = {} THEN st ELSE [st EXCEPT !.tasks = RemoveAt(st.tasks, SetMin(hits))]

addTask(st, task) ==
    IF task = NoTask THEN st ELSE [st EXCEPT !.tasks = Append(st.tasks, task)]

----------------------------------------------------------------------------
(* Task factories (tasks.js).  A factory returns [task, st]: the task (or  *)
(* NoTask) and the state with the id counter and the ledger as it left     *)
(* them.                                                                   *)

ExistsTask(st, type, x, y) ==
    \E i \in 1 .. Len(st.tasks) :
        st.tasks[i].type = type /\ st.tasks[i].x = x /\ st.tasks[i].y = y

createGatherTask(st, tileX, tileY) ==
    IF ~isInBounds(tileX, tileY) THEN [task |-> NoTask, st |-> st]
    ELSE IF st.tiles[<<tileX, tileY>>] \notin GatherableTiles THEN [task |-> NoTask, st |-> st]
    ELSE IF ExistsTask(st, "gather", tileX, tileY) THEN [task |-> NoTask, st |-> st]
    ELSE [task |-> [NoTask EXCEPT !.id = st.nextTaskId, !.type = "gather", !.x = tileX,
                                  !.y = tileY,
                                  !.resource = getResourceType(st.tiles[<<tileX, tileY>>])],
          st |-> [st EXCEPT !.nextTaskId = st.nextTaskId + 1]]

createDemolishTask(st, tileX, tileY) ==
    IF ~isInBounds(tileX, tileY) THEN [task |-> NoTask, st |-> st]
    ELSE IF st.tiles[<<tileX, tileY>>] \notin DemolishableTiles THEN [task |-> NoTask, st |-> st]
    ELSE IF ExistsTask(st, "demolish", tileX, tileY) THEN [task |-> NoTask, st |-> st]
    ELSE [task |-> [NoTask EXCEPT !.id = st.nextTaskId, !.type = "demolish", !.x = tileX,
                                  !.y = tileY],
          st |-> [st EXCEPT !.nextTaskId = st.nextTaskId + 1]]

\* the follow-up build task a demolish task carries (its id is in followUp)
FollowUpTask(task) ==
    [NoTask EXCEPT !.id = task.followUp, !.type = "build", !.x = task.x, !.y = task.y,
                   !.buildType = "door", !.pendingAfterDemolish = TRUE]

\* a variant whose door-over-wall branch queues the demolish task unpaid
createBuildTask_DoorOnCredit(st, tileX, tileY, buildType) ==
    IF ~isInBounds(tileX, tileY) THEN [task |-> NoTask, st |-> st]
    ELSE IF buildType \notin BuildTypes THEN [task |-> NoTask, st |-> st]
    ELSE LET paid == payCost(st.itemStacks, BuildingCost(buildType))
         IN  IF buildType = "door" /\ st.tiles[<<tileX, tileY>>] = WALL
             THEN [task |-> [NoTask EXCEPT !.id = st.nextTaskId, !.type = "demolish",
                                           !.x = tileX, !.y = tileY,
                                           !.followUp = st.nextTaskId + 1],
                   st |-> [st EXCEPT !.nextTaskId = st.nextTaskId + 2,
                                     !.itemStacks = paid.itemStacks]]
             ELSE IF st.tiles[<<tileX, tileY>>] \notin BuildableTiles
                  THEN [task |-> NoTask, st |-> st]
             ELSE IF ~paid.ok THEN [task |-> NoTask, st |-> st]
             ELSE [task |-> [NoTask EXCEPT !.id = st.nextTaskId, !.type = "build",
                                           !.x = tileX, !.y = tileY, !.buildType = buildType],
                   st |-> [st EXCEPT !.nextTaskId = st.nextTaskId + 1,
                                     !.itemStacks = paid.itemStacks]]

createBuildTask(st, tileX, tileY, buildType) ==
    IF ~isInBounds(tileX, tileY) THEN [task |-> NoTask, st |-> st]
    ELSE IF buildType \notin BuildTypes THEN [task |-> NoTask, st |-> st]
    ELSE LET paid == payCost(st.itemStacks, BuildingCost(buildType))
         IN  IF buildType = "door" /\ st.tiles[<<tileX, tileY>>] = WALL
             THEN IF ~paid.ok THEN [task |-> NoTask, st |-> st]
                  ELSE [task |-> [NoTask EXCEPT !.id = st.nextTaskId, !.type = "demolish",
                                                !.x = tileX, !.y = tileY,
                                                !.followUp = st.nextTaskId + 1],
                        st |-> [st EXCEPT !.nextTaskId = st.nextTaskId + 2,
                                          !.itemStacks = paid.itemStacks]]
             ELSE IF st.tiles[<<tileX, tileY>>] \notin BuildableTiles
                  THEN [task |-> NoTask, st |-> st]
             ELSE IF ~paid.ok THEN [task |-> NoTask, st |-> st]
             ELSE [task |-> [NoTask EXCEPT !.id = st.nextTaskId, !.type = "build",
                                           !.x = tileX, !.y = tileY, !.buildType = buildType],
                   st |-> [st EXCEPT !.nextTaskId = st.nextTaskId + 1,
                                     !.itemStacks = paid.itemStacks]]

createPickupTask(st, stack) ==
    IF \E i \in 1 .. Len(st.tasks) : st.tasks[i].type = "pickup" /\ st.tasks[i].stackId = stack.id
    THEN [task |-> NoTask, st |-> st]
    ELSE [task |-> [NoTask EXCEPT !.id = st.nextTaskId, !.type = "pickup", !.x = stack.x,
                                  !.y = stack.y, !.stackId = stack.id, !.resource = stack.type],
          st |-> [st EXCEPT !.nextTaskId = st.nextTaskId + 1]]

createHaulTask(st, ci) ==
    LET c == st.colonists[ci]
        sp == findAvailableStockpile(st.itemStacks, st.stockpiles, c.carrying.type,
                                     pixelToTile(c.x), pixelToTile(c.y))
    IN  IF c.carrying = NoCarry THEN [task |-> NoTask, st |-> st]
        ELSE IF sp = NoCell THEN [task |-> NoTask, st |-> st]
        ELSE [task |-> [NoTask EXCEPT !.id = st.nextTaskId, !.type = "haul", !.x = sp[1],
                                      !.y = sp[2], !.assigned = c.id],
              st |-> [st EXCEPT !.nextTaskId = st.nextTaskId + 1]]

----------------------------------------------------------------------------
(* The scheduler (tasks.js assignTasks).                                   *)

\* a synthesis that does not ask whether a storage cell takes the stack
RECURSIVE SynthesizePickups_Always(_, _, _)
SynthesizePickups_Always(st, ground, i) ==
    IF i > Len(ground) THEN st
    ELSE LET stack == ground[i]
             hasPickupTask == \E k \in 1 .. Len(st.tasks) :
                                 st.tasks[k].type = "pickup" /\ st.tasks[k].stackId = stack.id
             made == createPickupTask(st, stack)
         IN  IF hasPickupTask THEN SynthesizePickups_Always(st, ground, i + 1)
             ELSE SynthesizePickups_Always(addTask(made.st, made.task), ground, i + 1)

\* first loop: a pickup task for every ground stack that lacks one and has a
\* storage cell to go to; ground is the list of ground stacks taken at entry
RECURSIVE SynthesizePickups(_, _, _)
SynthesizePickups(st, ground, i) ==
    IF i > Len(ground) THEN st
    ELSE LET stack == ground[i]
             hasPickupTask == \E k \in 1 .. Len(st.tasks) :
                                 st.tasks[k].type = "pickup" /\ st.tasks[k].stackId = stack.id
             sp == findAvailableStockpile(st.itemStacks, st.stockpiles, stack.type,
                                          stack.x, stack.y)
             made == createPickupTask(st, stack)
         IN  IF hasPickupTask \/ sp = NoCell THEN SynthesizePickups(st, ground, i + 1)
             ELSE SynthesizePickups(addTask(made.st, made.task), ground, i + 1)

\* setPath and setTarget on the first waypoint
StartRoute(c, path) ==
    [c EXCEPT !.path = path, !.pathIndex = 0,
              !.targetX = tileToPixel(path[1][1]), !.targetY = tileToPixel(path[1][2])]

\* the carrying branch: a fresh haul task, kept only if a path exists
AssignHaul(st, ci) ==
    LET c == st.colonists[ci]
        ct == getColonistTile(c)
        made == createHaulTask(st, ci)
        path == findPath(st.tiles, ct[1], ct[2], made.task.x, made.task.y)
    IN  IF made.task = NoTask THEN made.st
        ELSE IF path # NoPath /\ Len(path) > 0
             THEN [made.st EXCEPT !.colonists[ci] =
                        StartRoute([c EXCEPT !.task = made.task], path)]
             ELSE made.st

\* an inner loop that gives up at the first unassigned task it cannot reach
RECURSIVE AssignQueued_Blocking(_, _, _)
AssignQueued_Blocking(st, ci, k) ==
    IF k > Len(st.tasks) THEN st
    ELSE LET task == st.tasks[k]
             c == st.colonists[ci]
             ct == getColonistTile(c)
             needsAdjacent == task.type # "pickup"
             workPos == findWorkPosition(st.tiles, task.x, task.y, ct[1], ct[2])
             target == IF needsAdjacent THEN workPos ELSE <<task.x, task.y>>
             path == findPath(st.tiles, ct[1], ct[2], target[1], target[2])
         IN  IF task.assigned # -1 THEN AssignQueued_Blocking(st, ci, k + 1)
             ELSE IF needsAdjacent /\ workPos = NoCell THEN st
             ELSE IF path = NoPath \/ Len(path) = 0 THEN st
             ELSE LET st1 == SetAssigned(st, task.id, c.id)
                  IN  [st1 EXCEPT !.colonists[ci] =
                          StartRoute([st1.colonists[ci] EXCEPT !.task = st1.tasks[k]], path)]

\* the inner loop: the first unassigned task with a work position and a path
RECURSIVE AssignQueued(_, _, _)
AssignQueued(st, ci, k) ==
    IF k > Len(st.tasks) THEN st
    ELSE LET task == st.tasks[k]
             c == st.colonists[ci]
             ct == getColonistTile(c)
             needsAdjacent == task.type # "pickup"
             workPos == findWorkPosition(st.tiles, task.x, task.y, ct[1], ct[2])
             target == IF needsAdjacent THEN workPos ELSE <<task.x, task.y>>
             path == findPath(st.tiles, ct[1], ct[2], target[1], target[2])
         IN  IF task.assigned # -1 THEN AssignQueued(st, ci, k + 1)
             ELSE IF needsAdjacent /\ workPos = NoCell THEN AssignQueued(st, ci, k + 1)
             ELSE IF path = NoPath \/ Len(path) = 0 THEN AssignQueued(st, ci, k + 1)
             ELSE LET st1 == SetAssigned(st, task.id, c.id)
                  IN  [st1 EXCEPT !.colonists[ci] =
                          StartRoute([st1.colonists[ci] EXCEPT !.task = st1.tasks[k]], path)]

\* a pass that sends a carrying colonist to the queue like any other
RECURSIVE AssignLoop_CarrierQueues(_, _)
AssignLoop_CarrierQueues(st, ci) ==
    IF ci > Len(st.colonists) THEN st
    ELSE IF ~isIdle(st.colonists[ci]) THEN AssignLoop_CarrierQueues(st, ci + 1)
    ELSE AssignLoop_CarrierQueues(AssignQueued(st, ci, 1), ci + 1)

RECURSIVE AssignLoop(_, _)
AssignLoop(st, ci) ==
    IF ci > Len(st.colonists) THEN st
    ELSE IF ~isIdle(st.colonists[ci]) THEN AssignLoop(st, ci + 1)
    ELSE IF isCarrying(st.colonists[ci]) THEN AssignLoop(AssignHaul(st, ci), ci + 1)
    ELSE AssignLoop(AssignQueued(st, ci, 1), ci + 1)

\* a pass that assigns first and adds the pickup tasks afterwards
assignTasks_AssignFirst(st) ==
    LET done == AssignLoop(st, 1)
    IN  SynthesizePickups(done, getGroundStacks(done.itemStacks), 1)

assignTasks(st) ==
    AssignLoop(SynthesizePickups(st, getGroundStacks(st.itemStacks), 1), 1)

----------------------------------------------------------------------------
(* The per-frame colonist update (systems.js).                             *)

Sign(n) == IF n > 0 THEN 1 ELSE IF n < 0 THEN -1 ELSE 0

\* Math.sqrt(dx*dx + dy*dy); every move is along one axis (AxisAligned below)
Dist(dx, dy) == Abs(dx) + Abs(dy)

isAtPathEnd(c) ==
    /\ Len(c.path) # 0
    /\ ~(c.pathIndex < Len(c.path) - 1)
    /\ c.targetX # -1
    /\ c.x = c.targetX
    /\ c.y = c.targetY

\* a movement step that does not look at the target cell before moving
updateColonistMovement_Unchecked(st, ci) ==
    LET c == st.colonists[ci]
        dx == c.targetX - c.x
        dy == c.targetY - c.y
        dist == Dist(dx, dy)
        newX == c.x + Sign(dx) * ColonistSpeed
        newY == c.y + Sign(dy) * ColonistSpeed
        next == c.path[c.pathIndex + 2]
    IN  IF c.targetX = -1 THEN st
        ELSE IF dist > ColonistSpeed
             THEN IF \/ (pixelToTile(newX) = pixelToTile(c.x) /\ pixelToTile(newY) = pixelToTile(c.y))
                     \/ isWalkable(st.tiles, pixelToTile(newX), pixelToTile(newY))
                  THEN [st EXCEPT !.colonists[ci].x = newX, !.colonists[ci].y = newY]
                  ELSE clearTask(st, ci, TRUE)
        ELSE LET st1 == [st EXCEPT !.colonists[ci].x = c.targetX, !.colonists[ci].y = c.targetY]
             IN  IF c.pathIndex < Len(c.path) - 1
                 THEN IF isWalkable(st.tiles, next[1], next[2])
                      THEN [st1 EXCEPT !.colonists[ci].pathIndex = c.pathIndex + 1,
                                       !.colonists[ci].targetX = tileToPixel(next[1]),
                                       !.colonists[ci].targetY = tileToPixel(next[2])]
                      ELSE clearTask(st1, ci, TRUE)
                 ELSE st1

updateColonistMovement(st, ci) ==
    LET c == st.colonists[ci]
        dx == c.targetX - c.x
        dy == c.targetY - c.y
        dist == Dist(dx, dy)
        newX == c.x + Sign(dx) * ColonistSpeed
        newY == c.y + Sign(dy) * ColonistSpeed
        next == c.path[c.pathIndex + 2]
    IN  IF c.targetX = -1 THEN st
        ELSE IF ~isWalkable(st.tiles, pixelToTile(c.targetX), pixelToTile(c.targetY))
             THEN clearTask(st, ci, TRUE)
        ELSE IF dist > ColonistSpeed
             THEN IF \/ (pixelToTile(newX) = pixelToTile(c.x) /\ pixelToTile(newY) = pixelToTile(c.y))
                     \/ isWalkable(st.tiles, pixelToTile(newX), pixelToTile(newY))
                  THEN [st EXCEPT !.colonists[ci].x = newX, !.colonists[ci].y = newY]
                  ELSE clearTask(st, ci, TRUE)
        ELSE LET st1 == [st EXCEPT !.colonists[ci].x = c.targetX, !.colonists[ci].y = c.targetY]
             IN  IF c.pathIndex < Len(c.path) - 1
                 THEN IF isWalkable(st.tiles, next[1], next[2])
                      THEN [st1 EXCEPT !.colonists[ci].pathIndex = c.pathIndex + 1,
                                       !.colonists[ci].targetX = tileToPixel(next[1]),
                                       !.colonists[ci].targetY = tileToPixel(next[2])]
                      ELSE clearTask(st1, ci, TRUE)
                 ELSE st1

isAdjacent(c, tileX, tileY) ==
    LET dx == Abs(pixelToTile(c.x) - tileX)
        dy == Abs(pixelToTile(c.y) - tileY)
    IN  (dx = 1 /\ dy = 0) \/ (dx = 0 /\ dy = 1)

\* a variant that sees only the colonists that stand still
isColonistOnTile_AtRest(st, tileX, tileY) ==
    \E i \in 1 .. Len(st.colonists) :
        /\ st.colonists[i].targetX = -1
        /\ pixelToTile(st.colonists[i].x) = tileX
        /\ pixelToTile(st.colonists[i].y) = tileY

isColonistOnTile(st, tileX, tileY) ==
    \E i \in 1 .. Len(st.colonists) :
        pixelToTile(st.colonists[i].x) = tileX /\ pixelToTile(st.colonists[i].y) = tileY

setTile(st, x, y, tile) ==
    IF isInBounds(x, y) THEN [st EXCEPT !.tiles[<<x, y>>] = tile] ELSE st

Rescan(st) ==
    LET r == detectRooms(st.tiles, st.nextRoomId, st.selectedRoom)
    IN  [st EXCEPT !.rooms = r.rooms, !.nextRoomId = r.nextRoomId,
                   !.selectedRoom = r.selectedRoom]

completeGather(st, ci) ==
    LET task == st.colonists[ci].task
        tile == st.tiles[<<task.x, task.y>>]
        stack == createItemStack(st.nextStackId, task.resource, 1, "ground", task.x, task.y)
        st1 == [st EXCEPT !.itemStacks = Append(st.itemStacks, stack),
                          !.nextStackId = st.nextStackId + 1]
        st2 == setTile(st1, task.x, task.y, getDepletedTile(tile))
    IN  clearTask(removeTask(st2, task.id), ci, FALSE)

processGatherWork(st, ci) ==
    LET st1 == [st EXCEPT !.colonists[ci].workProgress = st.colonists[ci].workProgress + 1]
    IN  IF st1.colonists[ci].workProgress >= GatherTime THEN completeGather(st1, ci) ELSE st1

completePickup(st, ci) ==
    LET task == st.colonists[ci].task
        hits == {i \in 1 .. Len(st.itemStacks) : st.itemStacks[i].id = task.stackId}
        k == SetMin(hits)
        st1 == IF hits = {} THEN st
               ELSE [st EXCEPT !.colonists[ci].carrying =
                                   [type |-> st.itemStacks[k].type,
                                    amount |-> st.itemStacks[k].amount],
                               !.colonists[ci].carryingStackId = st.itemStacks[k].id,
                               !.itemStacks = RemoveAt(st.itemStacks, k)]
    IN  clearTask(removeTask(st1, task.id), ci, FALSE)

\* completeHaul that never looks for a stack already at the storage cell
completeHaul_AlwaysNew(st, ci) ==
    LET c == st.colonists[ci]
        task == c.task
        st1 == IF c.carrying = NoCarry THEN st
               ELSE [st EXCEPT !.itemStacks =
                                   Append(st.itemStacks,
                                          createItemStack(st.nextStackId, c.carrying.type,
                                                          c.carrying.amount,
                                                          "stockpile", task.x, task.y)),
                               !.nextStackId = st.nextStackId + 1,
                               !.colonists[ci].carrying = NoCarry,
                               !.colonists[ci].carryingStackId = -1]
    IN  clearTask(st1, ci, FALSE)

completeHaul(st, ci) ==
    LET c == st.colonists[ci]
        task == c.task
        k == findStockpileStackAt(st.itemStacks, task.x, task.y)
        st1 == IF c.carrying = NoCarry THEN st
               ELSE LET st0 ==
                          IF k # 0
                          THEN [st EXCEPT !.itemStacks[k].amount =
                                              st.itemStacks[k].amount + c.carrying.amount]
                          ELSE [st EXCEPT !.itemStacks =
                                              Append(st.itemStacks,
                                                     createItemStack(st.nextStackId,
                                                                     c.carrying.type,
                                                                     c.carrying.amount,
                                                                     "stockpile", task.x, task.y)),
                                          !.nextStackId = st.nextStackId + 1]
                    IN  [st0 EXCEPT !.colonists[ci].carrying = NoCarry,
                                    !.colonists[ci].carryingStackId = -1]
    IN  clearTask(st1, ci, FALSE)

completeBuild(st, ci) ==
    LET task == st.colonists[ci].task
        known == task.buildType \in BuildTypes
        tileType == BuildingTile(task.buildType)
        st1 == IF known THEN setTile(st, task.x, task.y, tileType) ELSE st
        st2 == IF known /\ tileType = STOCKPILE
               THEN [st1 EXCEPT !.stockpiles = Append(st1.stockpiles, <<task.x, task.y>>)]
               ELSE st1
        st3 == IF known /\ (tileType = WALL \/ tileType = DOOR) THEN Rescan(st2) ELSE st2
    IN  clearTask(removeTask(st3, task.id), ci, FALSE)

\* build work that does not look who stands on the site
processBuildWork_NoLookout(st, ci) ==
    LET c == st.colonists[ci]
        task == c.task
        st1 == IF c.workProgress = 0
               THEN setTile(SetOriginalTile(st, task.id, st.tiles[<<task.x, task.y>>]),
                            task.x, task.y, FOUNDATION)
               ELSE st
        st2 == [st1 EXCEPT !.colonists[ci].workProgress = c.workProgress + 1]
    IN  IF st2.colonists[ci].workProgress >= BuildTime THEN completeBuild(st2, ci)
        ELSE st2

processBuildWork(st, ci) ==
    LET c == st.colonists[ci]
        task == c.task
        st1 == IF c.workProgress = 0
               THEN setTile(SetOriginalTile(st, task.id, st.tiles[<<task.x, task.y>>]),
                            task.x, task.y, FOUNDATION)
               ELSE st
        st2 == [st1 EXCEPT !.colonists[ci].workProgress = c.workProgress + 1]
    IN  IF c.workProgress = 0 /\ isColonistOnTile(st, task.x, task.y)
        THEN clearTask(st, ci, TRUE)
        ELSE IF st2.colonists[ci].workProgress >= BuildTime THEN completeBuild(st2, ci)
        ELSE st2

\* a variant that leaves the stored rooms as they were
completeDemolish_NoRescan(st, ci) ==
    LET task == st.colonists[ci].task
        st1 == setTile(st, task.x, task.y, RUBBLE)
        st2 == IF task.followUp # -1 THEN addTask(st1, FollowUpTask(task)) ELSE st1
    IN  clearTask(removeTask(st2, task.id), ci, FALSE)

completeDemolish(st, ci) ==
    LET task == st.colonists[ci].task
        st1 == Rescan(setTile(st, task.x, task.y, RUBBLE))
        st2 == IF task.followUp # -1 THEN addTask(st1, FollowUpTask(task)) ELSE st1
    IN  clearTask(removeTask(st2, task.id), ci, FALSE)

processDemolishWork(st, ci) ==
    LET c == st.colonists[ci]
        task == c.task
        st1 == IF c.workProgress = 0
               THEN SetOriginalTile(st, task.id, st.tiles[<<task.x, task.y>>])
               ELSE st
        st2 == [st1 EXCEPT !.colonists[ci].workProgress = c.workProgress + 1]
    IN  IF st2.colonists[ci].workProgress >= DemolishTime THEN completeDemolish(st2, ci)
        ELSE st2

updateColonistWork(st, ci) ==
    LET c == st.colonists[ci]
        task == c.task
    IN  CASE task.type = "gather" ->
               IF isAdjacent(c, task.x, task.y) THEN processGatherWork(st, ci) ELSE st
          [] task.type = "pickup" -> completePickup(st, ci)
          [] task.type = "haul" -> completeHaul(st, ci)
          [] task.type = "build" ->
               IF isAdjacent(c, task.x, task.y) THEN processBuildWork(st, ci) ELSE st
          [] task.type = "demolish" ->
               IF isAdjacent(c, task.x, task.y) THEN processDemolishWork(st, ci) ELSE st
          [] OTHER -> st

\* maybeStartWandering; dest is the outcome of its two Math.random() draws:
\* NoCell when the first one declines to wander, otherwise the cell picked
maybeStartWandering(st, ci, dest) ==
    LET c == st.colonists[ci]
        ct == getColonistTile(c)
        candidates == {d \in Cells :
                          /\ Abs(d[1] - ct[1]) <= WanderRadius
                          /\ Abs(d[2] - ct[2]) <= WanderRadius
                          /\ d # ct
                          /\ isWalkable(st.tiles, d[1], d[2])}
        path == findPath(st.tiles, ct[1], ct[2], dest[1], dest[2])
    IN  IF dest = NoCell \/ dest \notin candidates THEN st
        ELSE IF path = NoPath \/ Len(path) < 2 THEN st
        ELSE [st EXCEPT !.colonists[ci] = StartRoute([c EXCEPT !.wandering = TRUE], path)]

\* a turn in which a task holder works wherever it is
updateColonist_WorkAnywhere(st, ci, dest) ==
    LET c == st.colonists[ci]
        moved == updateColonistMovement(st, ci)
    IN  IF c.wandering
        THEN IF isAtPathEnd(moved.colonists[ci])
             THEN [moved EXCEPT !.colonists[ci] =
                      [moved.colonists[ci] EXCEPT !.wandering = FALSE, !.path = <<>>,
                                                  !.pathIndex = 0, !.targetX = -1,
                                                  !.targetY = -1]]
             ELSE moved
        ELSE IF c.task = NoTask /\ c.carrying = NoCarry
             THEN maybeStartWandering(st, ci, dest)
        ELSE IF c.task = NoTask THEN st
        ELSE IF moved.colonists[ci].task # NoTask THEN updateColonistWork(moved, ci)
        ELSE moved

\* one colonist's turn in updateColonists
updateColonist(st, ci, dest) ==
    LET c == st.colonists[ci]
        moved == updateColonistMovement(st, ci)
    IN  IF c.wandering
        THEN IF isAtPathEnd(moved.colonists[ci])
             THEN [moved EXCEPT !.colonists[ci] =
                      [moved.colonists[ci] EXCEPT !.wandering = FALSE, !.path = <<>>,
                                                  !.pathIndex = 0, !.targetX = -1,
                                                  !.targetY = -1]]
             ELSE moved
        ELSE IF c.task = NoTask /\ c.carrying = NoCarry
             THEN maybeStartWandering(st, ci, dest)
        ELSE IF c.task = NoTask THEN st
        ELSE IF isAtPathEnd(moved.colonists[ci]) THEN updateColonistWork(moved, ci)
        ELSE moved

RECURSIVE UpdateLoop(_, _, _)
UpdateLoop(st, ci, wander) ==
    IF ci > Len(st.colonists) THEN st
    ELSE UpdateLoop(updateColonist(st, ci, wander[ci]), ci + 1, wander)

updateColonists(st, wander) == UpdateLoop(st, 1, wander)

\* one frame of gameLoop: assignTasks, then updateColonists
gameLoop(st, wander) == updateColonists(assignTasks(st), wander)

----------------------------------------------------------------------------
(* The simulation.  Init is a colony some way into play, on a small window *)
(* of the map: the storage cell generateMap puts at the map centre, and    *)
(* either a walled room around it with wood in store, or open ground with  *)
(* a tree, a rock and stone in store.                                      *)

CenterX == MapWidth \div 2
CenterY == MapHeight \div 2

RoomLayout ==
    [c \in Cells |->
        IF c = <<CenterX, CenterY>> THEN STOCKPILE
        ELSE IF Abs(c[1] - CenterX) + Abs(c[2] - CenterY) = 1 THEN WALL
        ELSE IF c = <<CenterX + 1, CenterY + 1>> THEN TREE
        ELSE GRASS]

OpenLayout ==
    [c \in Cells |->
        IF c = <<CenterX, CenterY>> THEN STOCKPILE
        ELSE IF c = <<CenterX - 1, CenterY - 1>> THEN TREE
        ELSE IF c = <<CenterX + 1, CenterY - 1>> THEN ROCK
        ELSE GRASS]

\* spawnStartingColonists: a row below the centre
SpawnRow ==
    [i \in 1 .. NumColonists |->
        createColonist(i - 1, tileToPixel(CenterX + ((i - 1) - NumColonists \div 2)),
                       tileToPixel(CenterY + 1))]

\* colonists standing in the top corners of the window, outside the room
CornerRow ==
    [i \in 1 .. NumColonists |->
        createColonist(i - 1,
                       tileToPixel(IF i % 2 = 1 THEN CenterX - 1 ELSE CenterX + 1),
                       tileToPixel(CenterY - 1))]

Assign(st) ==
    /\ tiles' = st.tiles
    /\ colonists' = st.colonists
    /\ tasks' = st.tasks
    /\ itemStacks' = st.itemStacks
    /\ stockpiles' = st.stockpiles
    /\ rooms' = st.rooms
    /\ selectedRoom' = st.selectedRoom
    /\ nextTaskId' = st.nextTaskId
    /\ nextStackId' = st.nextStackId
    /\ nextRoomId' = st.nextRoomId

Init ==
    /\ \/ /\ tiles = RoomLayout
          /\ colonists = CornerRow
          /\ itemStacks = << createItemStack(0, "wood", 4, "stockpile", CenterX, CenterY) >>
       \/ /\ tiles = OpenLayout
          /\ colonists = SpawnRow
          /\ itemStacks = << createItemStack(0, "stone", 2, "stockpile", CenterX, CenterY) >>
    /\ tasks = <<>>
    /\ stockpiles = << <<CenterX, CenterY>> >>
    /\ rooms = detectRooms(tiles, 0, -1).rooms
    /\ nextRoomId = detectRooms(tiles, 0, -1).nextRoomId
    /\ selectedRoom = -1
    /\ nextTaskId = 0
    /\ nextStackId = 1
    /\ events = 0
    /\ probe = [op |-> "init"]

\* getRoomAtTile: the id of the first stored room holding the cell, or -1
getRoomAtTile(st, x, y) ==
    LET hits == {i \in 1 .. Len(st.rooms) : <<x, y>> \in SeqRange(st.rooms[i].tiles)}
    IN  IF hits = {} THEN -1 ELSE st.rooms[SetMin(hits)].id

\* handleClick with no build mode: queue a gather task, else toggle the room selection
handleClickNormal(st, x, y) ==
    LET made == createGatherTask(st, x, y)
        room == getRoomAtTile(st, x, y)
    IN  IF made.task # NoTask THEN addTask(made.st, made.task)
        ELSE IF room # -1 /\ st.selectedRoom = room THEN [st EXCEPT !.selectedRoom = -1]
        ELSE [st EXCEPT !.selectedRoom = room]

handleClickDemolish(st, x, y) ==
    LET made == createDemolishTask(st, x, y)
    IN  addTask(made.st, made.task)

handleClickBuild(st, x, y, buildType) ==
    LET made == createBuildTask(st, x, y, buildType)
    IN  addTask(made.st, made.task)

\* a cancel button that hands the task back to the queue
cancelTask_Unassign(st, colonistId) ==
    LET hits == {i \in 1 .. Len(st.colonists) : st.colonists[i].id = colonistId}
        ci == SetMin(hits)
    IN  IF hits = {} THEN st
        ELSE IF st.colonists[ci].task = NoTask THEN st
        ELSE clearTask(st, ci, TRUE)

\* the cancel button of setupColonistControls
cancelTask(st, colonistId) ==
    LET hits == {i \in 1 .. Len(st.colonists) : st.colonists[i].id = colonistId}
        ci == SetMin(hits)
    IN  IF hits = {} THEN st
        ELSE IF st.colonists[ci].task = NoTask THEN st
        ELSE removeTask(clearTask(st, ci, FALSE), st.colonists[ci].task.id)

\* a user step counts against MaxEvents when it changes anything
UserStep(st) ==
    /\ events < MaxEvents
    /\ st # State
    /\ Assign(st)
    /\ events' = events + 1
    /\ UNCHANGED probe

ClickNormal == \E c \in Cells : UserStep(handleClickNormal(State, c[1], c[2]))

ClickDemolish == \E c \in Cells : UserStep(handleClickDemolish(State, c[1], c[2]))

ClickBuild ==
    \E c \in Cells, b \in BuildTypes : UserStep(handleClickBuild(State, c[1], c[2], b))

Cancel == \E id \in 0 .. NumColonists - 1 : UserStep(cancelTask(State, id))

\* the wander draws open to the colonists in one frame: a cell within the
\* radius for a colonist that will reach maybeStartWandering, else NoCell
WanderDraws(st) ==
    {w \in [1 .. Len(st.colonists) -> Cells \cup {NoCell}] :
        \A i \in 1 .. Len(st.colonists) :
            w[i] # NoCell =>
                /\ ~st.colonists[i].wandering
                /\ st.colonists[i].task = NoTask
                /\ st.colonists[i].carrying = NoCarry
                /\ Abs(w[i][1] - pixelToTile(st.colonists[i].x)) <= WanderRadius
                /\ Abs(w[i][2] - pixelToTile(st.colonists[i].y)) <= WanderRadius}

WanderStarts(before, after) ==
    Cardinality({i \in 1 .. Len(before.colonists) :
                    after.colonists[i].wandering /\ ~before.colonists[i].wandering})

\* one animation frame
Tick ==
    /\ nextTaskId < MaxTaskId
    /\ LET assigned == assignTasks(State)
       IN  \E w \in WanderDraws(assigned) :
              LET after == updateColonists(assigned, w)
              IN  /\ events + WanderStarts(assigned, after) <= MaxEvents
                  /\ Assign(after)
                  /\ events' = events + WanderStarts(assigned, after)
    /\ UNCHANGED probe

Next == Tick \/ ClickNormal \/ ClickDemolish \/ ClickBuild \/ Cancel

Spec == Init /\ [][Next]_vars

----------------------------------------------------------------------------
(* The pure operations, each applied to inputs drawn in the initial state. *)
(* probe records the operation applied, its inputs and its result.         *)

\* grids with at most MaxObstacles cells of the given kinds on grass
Grids(kinds) ==
    {[c \in Cells |-> IF c \in DOMAIN f THEN f[c] ELSE GRASS] :
        f \in UNION {[S -> kinds] : S \in {T \in SUBSET Cells : Cardinality(T) <= MaxObstacles}}}

Quiet ==
    /\ stockpiles = <<>>
    /\ rooms = <<>>
    /\ selectedRoom = -1
    /\ nextStackId = 0
    /\ nextRoomId = 0
    /\ events = 0

WorldUnchanged ==
    UNCHANGED <<tiles, colonists, tasks, itemStacks, stockpiles, rooms, selectedRoom,
                nextTaskId, nextStackId, nextRoomId, events>>

\* pathfinding: a grid of walls, one colonist on a walkable start cell, and
\* one queued task at the goal cell (demolish on a wall, else a floor build)
PathInit ==
    /\ tiles \in Grids({WALL})
    /\ \E s \in Cells, g \in Cells :
          /\ isWalkable(tiles, s[1], s[2])
          /\ colonists = << createColonist(0, tileToPixel(s[1]), tileToPixel(s[2])) >>
          /\ tasks = << [NoTask EXCEPT !.id = 0,
                                       !.type = IF tiles[g] = WALL THEN "demolish" ELSE "build",
                                       !.buildType = IF tiles[g] = WALL THEN "none" ELSE "floor",
                                       !.x = g[1], !.y = g[2]] >>
          /\ probe = [op |-> "init", start |-> s, goal |-> g,
                      path |-> NoPath, expanded |-> 0, workPos |-> NoCell]
    /\ itemStacks = <<>>
    /\ nextTaskId = 1
    /\ Quiet

PathFind ==
    /\ probe.op = "init"
    /\ LET run == findPathRun(tiles, probe.start[1], probe.start[2], probe.goal[1], probe.goal[2])
       IN  probe' = [probe EXCEPT !.op = "findPath", !.path = run.path,
                                  !.expanded = run.expanded]
    /\ WorldUnchanged

PathWork ==
    /\ probe.op = "init"
    /\ probe' = [probe EXCEPT !.op = "findWorkPosition",
                              !.workPos = findWorkPosition(tiles, probe.goal[1], probe.goal[2],
                                                           probe.start[1], probe.start[2])]
    /\ WorldUnchanged

PathAssign ==
    /\ probe.op = "init"
    /\ Assign(assignTasks(State))
    /\ probe' = [probe EXCEPT !.op = "assignTasks"]
    /\ UNCHANGED events

PathNext == PathFind \/ PathWork \/ PathAssign

SpecPath == PathInit /\ [][PathNext]_vars

\* the ledger: up to MaxStacks stacks of positive amounts, one per cell
StackDraws ==
    UNION {[1 .. n -> [type : ResourceTypes, amount : 1 .. MaxAmount,
                       location : {"ground", "stockpile"}]] : n \in 0 .. MaxStacks}

CostDraws ==
    {<<>>}
    \cup {<< [resource |-> r, amount |-> a] >> : r \in ResourceTypes, a \in 0 .. MaxCost}
    \cup {<< [resource |-> r[1], amount |-> a], [resource |-> r[2], amount |-> b] >> :
            r \in {<<"wood", "stone">>, <<"stone", "wood">>}, a \in 0 .. MaxCost, b \in 0 .. MaxCost}

PayInit ==
    /\ tiles = [c \in Cells |-> GRASS]
    /\ colonists = <<>>
    /\ tasks = <<>>
    /\ \E d \in StackDraws :
          itemStacks = [i \in 1 .. Len(d) |->
                           createItemStack(i - 1, d[i].type, d[i].amount, d[i].location,
                                           (i - 1) % MapWidth, (i - 1) \div MapWidth)]
    /\ nextTaskId = 0
    /\ Quiet
    /\ probe = [op |-> "init", cost |-> <<>>, ok |-> FALSE, before |-> <<>>]

PayCost ==
    /\ probe.op = "init"
    /\ \E cost \in CostDraws :
          LET paid == payCost(itemStacks, cost)
          IN  /\ itemStacks' = paid.itemStacks
              /\ probe' = [op |-> "payCost", cost |-> cost, ok |-> paid.ok,
                           before |-> itemStacks]
    /\ UNCHANGED <<tiles, colonists, tasks, stockpiles, rooms, selectedRoom,
                   nextTaskId, nextStackId, nextRoomId, events>>

SpecPay == PayInit /\ [][PayCost]_vars

\* room detection: a grid of walls and trees, scanned up to twice
MaxScans == 2

RoomsInit ==
    /\ tiles \in Grids({WALL, TREE})
    /\ colonists = <<>>
    /\ tasks = <<>>
    /\ itemStacks = <<>>
    /\ nextTaskId = 0
    /\ Quiet
    /\ probe = [op |-> "init", scans |-> 0, previous |-> <<>>]

DetectRooms ==
    /\ probe.scans < MaxScans
    /\ LET found == detectRooms(tiles, nextRoomId, selectedRoom)
       IN  /\ rooms' = found.rooms
           /\ nextRoomId' = found.nextRoomId
           /\ selectedRoom' = found.selectedRoom
    /\ probe' = [op |-> "detectRooms", scans |-> probe.scans + 1, previous |-> rooms]
    /\ UNCHANGED <<tiles, colonists, tasks, itemStacks, stockpiles, nextTaskId,
                   nextStackId, events>>

SpecRooms == RoomsInit /\ [][DetectRooms]_vars

----------------------------------------------------------------------------
(* Properties of the ledger (SpecPay).                                     *)

\* the amount of one type held in storage, counted stack by stack
RECURSIVE StoredAmount(_, _)
StoredAmount(stacks, type) ==
    IF stacks = <<>> THEN 0
    ELSE (IF Head(stacks).location = "stockpile" /\ Head(stacks).type = type
          THEN Head(stacks).amount ELSE 0) + StoredAmount(Tail(stacks), type)

CostTypes(cost) == {cost[i].resource : i \in 1 .. Len(cost)}

Short(stacks, entry) == StoredAmount(stacks, entry.resource) < entry.amount

\* C4: a payCost call whose cost map asks, for at least one resource type,
\* more than storage holds reports failure and leaves every item stack as it
\* was, also when other types in the same cost map are affordable
C4_PayFailureChangesNothing ==
    (probe.op = "payCost" /\ \E i \in 1 .. Len(probe.cost) : Short(probe.before, probe.cost[i]))
        => (~probe.ok /\ itemStacks = probe.before)

\* a failed payment whose cost map has one type short and another, asked in
\* a positive amount, in stock
C4_Witness ==
    /\ probe.op = "payCost"
    /\ ~probe.ok
    /\ \E i, j \in 1 .. Len(probe.cost) :
          /\ Short(probe.before, probe.cost[i])
          /\ probe.cost[j].amount > 0
          /\ ~Short(probe.before, probe.cost[j])
    /\ itemStacks = probe.before

\* C5: a payCost call that succeeds lowers the storage total of every type
\* in the cost map by exactly the amount asked, leaves no stack with a
\* negative or zero amount, and leaves ground stacks and stacks of other
\* types as they were
C5_PaySuccessDeductsExactly ==
    (probe.op = "payCost" /\ probe.ok) =>
        LET Kept(s) == s.location = "ground" \/ s.type \notin CostTypes(probe.cost)
        IN  /\ \A i \in 1 .. Len(probe.cost) :
                  StoredAmount(itemStacks, probe.cost[i].resource)
                      = StoredAmount(probe.before, probe.cost[i].resource) - probe.cost[i].amount
            /\ \A i \in 1 .. Len(itemStacks) : itemStacks[i].amount > 0
            /\ SelectSeq(itemStacks, Kept) = SelectSeq(probe.before, Kept)

\* a successful payment of two types that empties one stack and takes part
\* of another
C5_Witness ==
    /\ probe.op = "payCost"
    /\ probe.ok
    /\ Len(probe.cost) = 2
    /\ \A i \in 1 .. 2 : probe.cost[i].amount > 0
    /\ Len(itemStacks) < Len(probe.before)
    /\ \E i \in 1 .. Len(itemStacks), j \in 1 .. Len(probe.before) :
          /\ itemStacks[i].id = probe.before[j].id
          /\ itemStacks[i].amount < probe.before[j].amount

----------------------------------------------------------------------------
(* Properties of pathfinding (SpecPath).                                   *)

Walkable(c) == c \in Cells /\ tiles[c] \in WalkableTiles

Around(c) == {<<c[1], c[2] - 1>>, <<c[1], c[2] + 1>>, <<c[1] - 1, c[2]>>, <<c[1] + 1, c[2]>>}

\* breadth-first layers over walkable cells: the number of the layer that
\* holds the goal, -1 when no layer does
RECURSIVE Layers(_, _, _, _)
Layers(frontier, seen, goal, d) ==
    IF goal \in frontier THEN d
    ELSE LET next == {n \in UNION {Around(c) : c \in frontier} : Walkable(n)} \ seen
         IN  IF next = {} THEN -1 ELSE Layers(next, seen \cup next, goal, d + 1)

ShortestDistance(start, goal) == Layers({start}, {start}, goal, 0)

\* a path is a walk from start to goal over walkable 4-adjacent cells
IsWalk(path, start, goal) ==
    /\ path # NoPath
    /\ Len(path) >= 1
    /\ path[1] = start
    /\ path[Len(path)] = goal
    /\ \A i \in 2 .. Len(path) : Walkable(path[i]) /\ path[i] \in Around(path[i - 1])

\* C6: between two walkable cells findPath returns a walk of the shortest
\* 4-connected length when the goal can be reached, and NoPath when it
\* cannot
C6_FindPathShortest ==
    (probe.op = "findPath" /\ Walkable(probe.start) /\ Walkable(probe.goal)) =>
        IF ShortestDistance(probe.start, probe.goal) = -1
        THEN probe.path = NoPath
        ELSE /\ IsWalk(probe.path, probe.start, probe.goal)
             /\ Len(probe.path) - 1 = ShortestDistance(probe.start, probe.goal)

\* a search between walkable cells that had to go around walls
C6_Witness ==
    /\ probe.op = "findPath"
    /\ Walkable(probe.start)
    /\ Walkable(probe.goal)
    /\ probe.path # NoPath
    /\ Len(probe.path) - 1 > Abs(probe.start[1] - probe.goal[1]) + Abs(probe.start[2] - probe.goal[2])

HasWalkableNeighbour(c) == \E n \in Around(c) : Walkable(n)

\* the walkable neighbour of the goal with the lowest Manhattan distance to
\* the start, the first in the order up, down, left, right among equals
NearestNeighbour(start, goal) ==
    LET order == << <<goal[1], goal[2] - 1>>, <<goal[1], goal[2] + 1>>,
                    <<goal[1] - 1, goal[2]>>, <<goal[1] + 1, goal[2]>> >>
        far(c) == Abs(start[1] - c[1]) + Abs(start[2] - c[2])
        pick == CHOOSE i \in 1 .. 4 :
                    /\ Walkable(order[i])
                    /\ \A j \in 1 .. 4 :
                          Walkable(order[j]) =>
                              \/ far(order[i]) < far(order[j])
                              \/ far(order[i]) = far(order[j]) /\ i <= j
    IN  order[pick]

\* C7: for a non-walkable goal with at least one walkable neighbour findPath
\* succeeds: it returns a walk from the start to a walkable neighbour of the
\* goal
C7_FindPathReachesNeighbour ==
    (probe.op = "findPath" /\ ~Walkable(probe.goal) /\ HasWalkableNeighbour(probe.goal)) =>
        \E n \in Around(probe.goal) : Walkable(n) /\ IsWalk(probe.path, probe.start, n)

\* what findPath does for such a goal: it searches for the one neighbour
\* nearest to the start, returns a shortest walk to it when the start reaches
\* it, and NoPath when it does not, whatever the other neighbours
FindPathSubstitutesNearest ==
    (probe.op = "findPath" /\ ~Walkable(probe.goal) /\ HasWalkableNeighbour(probe.goal)) =>
        LET n == NearestNeighbour(probe.start, probe.goal)
        IN  IF ShortestDistance(probe.start, n) = -1
            THEN probe.path = NoPath
            ELSE /\ IsWalk(probe.path, probe.start, n)
                 /\ Len(probe.path) - 1 = ShortestDistance(probe.start, n)

\* a search for a wall whose nearest neighbour is cut off from the start
\* while another of its neighbours is not: findPath has returned NoPath
C7_Witness ==
    /\ probe.op = "findPath"
    /\ ~Walkable(probe.goal)
    /\ ShortestDistance(probe.start, NearestNeighbour(probe.start, probe.goal)) = -1
    /\ \E n \in Around(probe.goal) : Walkable(n) /\ ShortestDistance(probe.start, n) # -1
    /\ probe.path = NoPath

\* C8: for a target with no walkable neighbour, findPath to the (non-walkable)
\* target returns NoPath without one iteration of its search, findWorkPosition
\* returns none, and assignTasks leaves the task queued and unassigned
C8_NoNeighbourNoWork ==
    ~HasWalkableNeighbour(probe.goal) =>
        /\ (probe.op = "findPath" /\ ~Walkable(probe.goal))
              => (probe.path = NoPath /\ probe.expanded = 0)
        /\ probe.op = "findWorkPosition" => probe.workPos = NoCell
        /\ probe.op = "assignTasks"
              => /\ Len(tasks) = 1
                 /\ tasks[1].assigned = -1
                 /\ colonists[1].task = NoTask
                 /\ colonists[1].path = <<>>

\* the scheduler has run over a demolish task on a wall with no walkable
\* neighbour
C8_Witness ==
    /\ probe.op = "assignTasks"
    /\ ~Walkable(probe.goal)
    /\ ~HasWalkableNeighbour(probe.goal)
    /\ tasks[1].type = "demolish"
    /\ tasks[1].assigned = -1

----------------------------------------------------------------------------
(* Properties of room detection (SpecRooms).                               *)

Inner(c) == ~OnMapEdge(c[1], c[2])

\* the grid is open but for the four walls around cell c
OneCellRoom(c) ==
    /\ Inner(c)
    /\ \A d \in Cells :
          IF d \in Around(c) THEN tiles[d] = WALL ELSE tiles[d] \notin {WALL, TREE, ROCK}

\* C9: on a grid that is open but for four walls around one inner cell,
\* detectRooms stores exactly one room; it has size 1, holds that cell, and
\* its walls are exactly the four wall cells around it
C9_OneCellRoom ==
    probe.op = "detectRooms" =>
        \A c \in Cells :
            OneCellRoom(c) =>
                /\ Len(rooms) = 1
                /\ rooms[1].size = 1
                /\ rooms[1].tiles = <<c>>
                /\ Len(rooms[1].walls) = 4
                /\ SeqRange(rooms[1].walls) = Around(c)

\* detectRooms has scanned such a grid
C9_Witness ==
    /\ probe.op = "detectRooms"
    /\ \E c \in Cells : OneCellRoom(c)
    /\ Len(rooms) = 1

----------------------------------------------------------------------------
(* Properties of the simulation (Spec).                                    *)

\* every move is along one axis, which is what Dist relies on
AxisAligned ==
    \A i \in 1 .. Len(colonists) :
        colonists[i].targetX # -1 =>
            (colonists[i].x = colonists[i].targetX \/ colonists[i].y = colonists[i].targetY)

Holds(i, id) == colonists[i].task # NoTask /\ colonists[i].task.id = id

\* C1: no two colonists hold the same task, and a queued task whose
\* assigned field names a colonist is held by that colonist and by no other
C1_TaskExclusive ==
    /\ \A i, j \in 1 .. Len(colonists) :
          (i # j /\ colonists[i].task # NoTask) => ~Holds(j, colonists[i].task.id)
    /\ \A k \in 1 .. Len(tasks) :
          tasks[k].assigned # -1 =>
              \A i \in 1 .. Len(colonists) :
                  Holds(i, tasks[k].id) <=> colonists[i].id = tasks[k].assigned

\* two colonists at work on two queued tasks, each task naming its holder
C1_Witness ==
    /\ Len(colonists) >= 2
    /\ colonists[1].task # NoTask
    /\ colonists[2].task # NoTask
    /\ \E k, l \in 1 .. Len(tasks) :
          /\ k # l
          /\ tasks[k].assigned = colonists[1].id
          /\ tasks[l].assigned = colonists[2].id

Unassigned(k) == tasks[k].assigned = -1

SameTarget(k, l) ==
    /\ tasks[k].type = tasks[l].type
    /\ \/ tasks[k].type \in {"gather", "demolish"}
             /\ tasks[k].x = tasks[l].x /\ tasks[k].y = tasks[l].y
       \/ tasks[k].type = "pickup" /\ tasks[k].stackId = tasks[l].stackId

\* C2: the queue holds at most one unassigned gather, demolish or pickup
\* task for one target cell (for pickup, one stack)
C2_OneUnassignedPerTarget ==
    \A k, l \in 1 .. Len(tasks) :
        (k # l /\ Unassigned(k) /\ Unassigned(l)) => ~SameTarget(k, l)

\* two unassigned demolish tasks for one wall, each carrying a door build
C2_Witness ==
    \E k, l \in 1 .. Len(tasks) :
        /\ k # l
        /\ Unassigned(k) /\ Unassigned(l)
        /\ tasks[k].type = "demolish" /\ SameTarget(k, l)
        /\ tasks[k].followUp # -1 /\ tasks[l].followUp # -1
        /\ tiles[<<tasks[k].x, tasks[k].y>>] = WALL

\* C3, its last clause: the queue never holds a demolish task and a door
\* build task for the same cell
C3_NeverDemolishAndDoor ==
    \A k, l \in 1 .. Len(tasks) :
        ~ /\ tasks[k].type = "demolish"
          /\ tasks[l].type = "build" /\ tasks[l].buildType = "door"
          /\ tasks[k].x = tasks[l].x /\ tasks[k].y = tasks[l].y

\* C3, its first clauses: a door request over a wall that succeeds takes
\* the door's cost from storage and queues one demolish task for the cell,
\* and no door build task
C3_DoorRequestPaysAndQueuesDemolish ==
    [][\A c \in Cells :
          (/\ tiles[c] = WALL
           /\ payCost(itemStacks, BuildingCost("door")).ok
           /\ State' = handleClickBuild(State, c[1], c[2], "door"))
          => /\ StoredAmount(itemStacks', "wood") = StoredAmount(itemStacks, "wood") - 2
             /\ Len(tasks') = Len(tasks) + 1
             /\ tasks'[Len(tasks')].type = "demolish"
             /\ tasks'[Len(tasks')].x = c[1] /\ tasks'[Len(tasks')].y = c[2]
             /\ SubSeq(tasks', 1, Len(tasks)) = tasks]_vars

\* a demolish task and a door build task for one cell, both queued
C3_Witness ==
    \E k, l \in 1 .. Len(tasks) :
        /\ tasks[k].type = "demolish"
        /\ tasks[l].type = "build" /\ tasks[l].buildType = "door"
        /\ tasks[l].pendingAfterDemolish
        /\ tasks[k].x = tasks[l].x /\ tasks[k].y = tasks[l].y

Open(tl, c) == c \in Cells /\ tl[c] \notin {WALL, TREE, ROCK}

\* the cells joined to the given ones through open 4-neighbours
RECURSIVE Joined(_, _)
Joined(tl, S) ==
    LET more == {n \in UNION {Around(c) : c \in S} : Open(tl, n)} \ S
    IN  IF more = {} THEN S ELSE Joined(tl, S \cup more)

ReachesEdge(tl, S) == \E c \in Joined(tl, S) : OnMapEdge(c[1], c[2])

\* C10: when the one change a step makes to the grid is a wall of a stored
\* room turning to rubble, and the cells of that room are then joined to a
\* cell on the map edge, no room stored after the step holds any of them
C10_OpenedRoomForgotten ==
    [][\A w \in Cells :
          (tiles[w] = WALL /\ tiles' = [tiles EXCEPT ![w] = RUBBLE]) =>
              \A i \in 1 .. Len(rooms) :
                  (w \in SeqRange(rooms[i].walls) /\ ReachesEdge(tiles', SeqRange(rooms[i].tiles)))
                      => \A j \in 1 .. Len(rooms') :
                            SeqRange(rooms'[j].tiles) \cap SeqRange(rooms[i].tiles) = {}]_vars

\* the room around the storage cell has lost a wall to a demolish task: the
\* storage cell is joined to the map edge and no room is stored
C10_Witness ==
    /\ tiles[<<CenterX, CenterY>>] = STOCKPILE
    /\ \E w \in Around(<<CenterX, CenterY>>) :
          /\ tiles[w] = RUBBLE
          /\ \A v \in Around(<<CenterX, CenterY>>) \ {w} : tiles[v] = WALL
    /\ ReachesEdge(tiles, {<<CenterX, CenterY>>})
    /\ rooms = <<>>

Members(r) == SeqRange(r.tiles)

----------------------------------------------------------------------------
(* Gathering to the end (SpecGather): open ground with one tree and one    *)
(* empty storage cell, the colonists in their spawn row.  The frame is an  *)
(* animation callback that re-arms itself, hence the fairness on Tick.     *)

GatherLayout ==
    [c \in Cells |->
        IF c = <<CenterX, CenterY>> THEN STOCKPILE
        ELSE IF c = <<CenterX - 1, CenterY - 1>> THEN TREE
        ELSE GRASS]

GatherInit ==
    /\ tiles = GatherLayout
    /\ colonists = SpawnRow
    /\ itemStacks = <<>>
    /\ tasks = <<>>
    /\ stockpiles = << <<CenterX, CenterY>> >>
    /\ rooms = <<>>
    /\ nextRoomId = 0
    /\ selectedRoom = -1
    /\ nextTaskId = 0
    /\ nextStackId = 0
    /\ events = 0
    /\ probe = [op |-> "init"]

GatherNext == Tick \/ ClickNormal

\* a frame would leave every variable as it is: ~ENABLED <<Tick>>_vars
FrameRests ==
    \/ nextTaskId >= MaxTaskId
    \/ LET assigned == assignTasks(State)
       IN  \A w \in WanderDraws(assigned) :
              LET after == updateColonists(assigned, w)
              IN  events + WanderStarts(assigned, after) > MaxEvents \/ after = State

\* weak fairness of Tick, WF_vars(Tick), with its enabling condition written out
TickFair == []<>FrameRests \/ []<><<Tick>>_vars

SpecGather == GatherInit /\ [][GatherNext]_vars /\ TickFair

TreeCell == <<CenterX - 1, CenterY - 1>>

GatherQueued ==
    \E k \in 1 .. Len(tasks) :
        tasks[k].type = "gather" /\ <<tasks[k].x, tasks[k].y>> = TreeCell

GatherDone ==
    /\ tiles[TreeCell] = STUMP
    /\ \E i \in 1 .. Len(itemStacks) :
          /\ itemStacks[i].location = "stockpile"
          /\ itemStacks[i].type = "wood"
          /\ itemStacks[i].amount = 1
          /\ <<itemStacks[i].x, itemStacks[i].y>> = <<CenterX, CenterY>>
    /\ \A i \in 1 .. Len(itemStacks) : itemStacks[i].location # "ground"
    /\ tasks = <<>>
    /\ \A i \in 1 .. Len(colonists) : colonists[i].carrying = NoCarry

\* C12: once a gather task for the tree is queued and frames keep running,
\* the tree is a stump, one wood lies in a storage stack on the storage
\* cell, no stack is on the ground, the queue is empty and nobody carries
C12_GatherEndsInStorage == GatherQueued ~> GatherDone

\* a colonist that holds the gather task with no route and no target: it
\* was assigned while wandering and its walk has ended
C12_Witness ==
    \E i \in 1 .. Len(colonists) :
        /\ colonists[i].task # NoTask
        /\ colonists[i].task.type = "gather"
        /\ colonists[i].path = <<>>
        /\ colonists[i].targetX = -1
        /\ ~colonists[i].wandering


\* C12, on finite runs: while the gather task for the tree is queued, a
\* frame that leaves everything as it is can only come with the end state
\* reached; as the end state has an empty queue, no frame may rest while the
\* task is queued
C12_NoRestBeforeTheEnd == (GatherQueued /\ FrameRests) => GatherDone

----------------------------------------------------------------------------
(* Wandering and the scheduler (Spec).                                     *)

\* C13: assignTasks, run on any state the simulation reaches, gives no task
\* (queued or haul) to a colonist whose wandering flag is set
C13_WanderingClaimsNoTask ==
    \A i \in 1 .. Len(colonists) :
        colonists[i].wandering =>
            assignTasks(State).colonists[i].task = colonists[i].task

\* a colonist whose wandering flag is set and who holds a queued task that
\* names it
C13_Witness ==
    \E i \in 1 .. Len(colonists) :
        /\ colonists[i].wandering
        /\ colonists[i].task # NoTask
        /\ \E k \in 1 .. Len(tasks) :
              tasks[k].id = colonists[i].task.id /\ tasks[k].assigned = colonists[i].id


----------------------------------------------------------------------------
(* Hauling two resources to one empty storage cell (SpecHaul).             *)

HaulInit ==
    /\ tiles = OpenLayout
    /\ colonists = SpawnRow
    /\ itemStacks = <<>>
    /\ tasks = <<>>
    /\ stockpiles = << <<CenterX, CenterY>> >>
    /\ rooms = <<>>
    /\ nextRoomId = 0
    /\ selectedRoom = -1
    /\ nextTaskId = 0
    /\ nextStackId = 0
    /\ events = 0
    /\ probe = [op |-> "init"]

HaulNext == Tick \/ ClickNormal

SpecHaul == HaulInit /\ [][HaulNext]_vars

\* amount of a resource type in the colonists' hands
RECURSIVE CarriedAmount(_, _)
CarriedAmount(cs, type) ==
    IF cs = <<>> THEN 0
    ELSE (IF Head(cs).carrying.type = type THEN Head(cs).carrying.amount ELSE 0)
         + CarriedAmount(Tail(cs), type)

\* C14: resource types are never mixed in a storage stack: whatever the
\* order of haul assignments and completions, the stored amount of a type
\* grows in a step by no more than the amount of that type the colonists
\* carried before the step
C14_DepositsKeepTheirType ==
    [][\A type \in ResourceTypes :
          StoredAmount(itemStacks', type)
              <= StoredAmount(itemStacks, type) + CarriedAmount(colonists, type)]_vars

\* both the tree and the rock are gathered and delivered, and the storage
\* cell holds both units in one stack of a single type
C14_Witness ==
    /\ ~ \E k \in 1 .. Len(itemStacks) : itemStacks[k].location = "ground"
    /\ \A i \in 1 .. Len(colonists) : colonists[i].carrying = NoCarry
    /\ tiles[<<CenterX - 1, CenterY - 1>>] # TREE
    /\ tiles[<<CenterX + 1, CenterY - 1>>] # ROCK
    /\ Len(itemStacks) = 1
    /\ itemStacks[1].location = "stockpile"
    /\ itemStacks[1].amount = 2


----------------------------------------------------------------------------
(* Item stacks at frame boundaries (Spec).                                 *)

\* C15: in every state between frames each cell holds at most one stack
\* located in storage, and every stack, on the ground or in storage, has a
\* whole amount greater than zero
C15_OneStoredStackPerCell ==
    /\ \A a, b \in 1 .. Len(itemStacks) :
          (/\ a # b
           /\ itemStacks[a].location = "stockpile"
           /\ itemStacks[b].location = "stockpile"
           /\ itemStacks[a].x = itemStacks[b].x)
              => itemStacks[a].y # itemStacks[b].y
    /\ \A a \in 1 .. Len(itemStacks) :
          itemStacks[a].amount \in Nat \ {0}

\* a haul was merged into the stack the storage cell already held: the two
\* stone of the start plus the unit gathered from the rock
C15_Witness ==
    \E a \in 1 .. Len(itemStacks) :
        /\ itemStacks[a].location = "stockpile"
        /\ itemStacks[a].type = "stone"
        /\ itemStacks[a].amount = 3


----------------------------------------------------------------------------
(* A room closed by a tree (SpecGrove): the storage cell at the centre has *)
(* walls on three sides and a tree above it.                               *)

GroveLayout ==
    [c \in Cells |->
        IF c = <<CenterX, CenterY>> THEN STOCKPILE
        ELSE IF c = <<CenterX, CenterY - 1>> THEN TREE
        ELSE IF c \in {<<CenterX - 1, CenterY>>, <<CenterX + 1, CenterY>>,
                       <<CenterX, CenterY + 1>>} THEN WALL
        ELSE GRASS]

GroveInit ==
    /\ tiles = GroveLayout
    /\ colonists = CornerRow
    /\ itemStacks = << createItemStack(0, "wood", 4, "stockpile", CenterX, CenterY) >>
    /\ tasks = <<>>
    /\ stockpiles = << <<CenterX, CenterY>> >>
    /\ rooms = detectRooms(tiles, 0, -1).rooms
    /\ nextRoomId = detectRooms(tiles, 0, -1).nextRoomId
    /\ selectedRoom = -1
    /\ nextTaskId = 0
    /\ nextStackId = 1
    /\ events = 0
    /\ probe = [op |-> "init"]

SpecGrove == GroveInit /\ [][Next]_vars

\* the cell sets of a sequence of rooms
RoomSets(rs) == {Members(rs[i]) : i \in 1 .. Len(rs)}

\* C17: between frames the stored rooms have the cells of the rooms that
\* detectRooms finds on the grid as it is now
C17_StoredRoomsAreCurrent ==
    RoomSets(rooms) = RoomSets(detectRooms(tiles, nextRoomId, selectedRoom).rooms)

\* the tree that closed the room is gathered: the stored rooms still hold
\* the centre cell, which now joins the open land
C17_Witness ==
    /\ tiles[<<CenterX, CenterY - 1>>] = STUMP
    /\ \E i \in 1 .. Len(rooms) : <<CenterX, CenterY>> \in Members(rooms[i])
    /\ detectRooms(tiles, nextRoomId, selectedRoom).rooms = <<>>


----------------------------------------------------------------------------
(* A colonist whose way is shut (Spec).                                    *)

\* the state in which colonist ci starts its turn of a frame: the scheduler
\* has run and the colonists before it have had their turns
RECURSIVE TurnsBefore(_, _, _, _)
TurnsBefore(st, k, ci, wander) ==
    IF k >= ci THEN st
    ELSE TurnsBefore(updateColonist(st, k, wander[k]), k + 1, ci, wander)

\* colonist ci holds a task and the cell of its movement target is not walkable
Blocked(st, ci) ==
    LET c == st.colonists[ci]
    IN  /\ c.task # NoTask
        /\ c.targetX # -1
        /\ ~isWalkable(st.tiles, pixelToTile(c.targetX), pixelToTile(c.targetY))

\* what the turn of a blocked colonist leaves: the colonist idle where it
\* stood, and its task, if queued, still queued and free
Released(before, after, ci) ==
    LET c == before.colonists[ci]
        d == after.colonists[ci]
    IN  /\ d.task = NoTask
        /\ isIdle(d)
        /\ d.path = <<>>
        /\ d.targetX = -1
        /\ d.targetY = -1
        /\ d.workProgress = 0
        /\ d.x = c.x
        /\ d.y = c.y
        /\ Len(after.tasks) = Len(before.tasks)
        /\ \A k \in 1 .. Len(before.tasks) :
              after.tasks[k] = IF before.tasks[k].id = c.task.id
                               THEN [before.tasks[k] EXCEPT !.assigned = -1]
                               ELSE before.tasks[k]

----------------------------------------------------------------------------
(* How a queued task loses its colonist (Spec).                            *)

\* the turn of colonist ci is a forced release: its movement step hands the
\* task back because the way is shut, or its build work does because a
\* colonist stands on the build site
ForcedRelease(before, ci) ==
    LET c == before.colonists[ci]
        moved == updateColonistMovement(before, ci)
        d == moved.colonists[ci]
    IN  /\ c.task # NoTask
        /\ \/ d.task = NoTask
           \/ /\ ~c.wandering
              /\ isAtPathEnd(d)
              /\ d.task.type = "build"
              /\ isAdjacent(d, d.task.x, d.task.y)
              /\ d.workProgress = 0
              /\ isColonistOnTile(moved, d.task.x, d.task.y)

\* the step now taken is the frame that follows the scheduler's result
\* assigned with wander draws w
FrameIs(assigned, w) ==
    LET after == updateColonists(assigned, w)
    IN  /\ tiles' = after.tiles
        /\ colonists' = after.colonists
        /\ tasks' = after.tasks
        /\ itemStacks' = after.itemStacks

\* task t, assigned in the queue ts, is in the queue us unassigned
BackInQueue(ts, k, us) ==
    /\ ts[k].assigned # -1
    /\ \E j \in 1 .. Len(us) : us[j].id = ts[k].id /\ us[j].assigned = -1

\* C19: a queued task that is assigned becomes unassigned, staying in the
\* queue, only in a frame and only by the forced release of the colonist
\* that held it (movement blocked, or build site occupied); no user step
\* unassigns a queued task, and cancelling a colonist's task takes the task
\* out of the queue
C19_UnassignedOnlyByForcedRelease ==
    [][LET assigned == assignTasks(State)
           back == {k \in 1 .. Len(assigned.tasks) :
                       BackInQueue(assigned.tasks, k, tasks')}
           frames == {w \in WanderDraws(assigned) : FrameIs(assigned, w)}
       IN  /\ back # {} =>
                IF frames # {}
                THEN \A w \in frames : \A k \in back :
                        \E ci \in 1 .. Len(colonists) :
                            LET before == TurnsBefore(assigned, 1, ci, w)
                            IN  /\ before.colonists[ci].task.id = assigned.tasks[k].id
                                /\ ForcedRelease(before, ci)
                ELSE \A k \in 1 .. Len(tasks) : ~BackInQueue(tasks, k, tasks')
           /\ \A ci \in 1 .. Len(colonists) :
                (/\ colonists[ci].task # NoTask
                 /\ tasks' = cancelTask(State, colonists[ci].id).tasks
                 /\ colonists' = cancelTask(State, colonists[ci].id).colonists)
                    => ~\E j \in 1 .. Len(tasks') : tasks'[j].id = colonists[ci].task.id
      ]_vars

\* a colonist is about to start a build whose site another colonist stands
\* on: its turn puts the assigned task back in the queue unassigned
C19_Witness ==
    \E ci \in 1 .. Len(colonists) :
        LET before == TurnsBefore(assignTasks(State), 1, ci,
                                  [i \in 1 .. Len(colonists) |-> NoCell])
            c == before.colonists[ci]
        IN  /\ c.task.type = "build"
            /\ updateColonistMovement(before, ci).colonists[ci].task # NoTask
            /\ ForcedRelease(before, ci)
            /\ \E k \in 1 .. Len(before.tasks) :
                  /\ before.tasks[k].id = c.task.id
                  /\ before.tasks[k].assigned = c.id
                  /\ updateColonist(before, ci, NoCell).tasks[k].assigned = -1

----------------------------------------------------------------------------
(* The order of one scheduling pass (Spec).                                *)

\* the queue as the pass finds it once the pickups are added
Queue0 == SynthesizePickups(State, getGroundStacks(itemStacks), 1)

\* work-position resolution and pathfinding both succeed for colonist ci
Feasible(st, ci, task) ==
    LET ct == getColonistTile(st.colonists[ci])
        workPos == findWorkPosition(st.tiles, task.x, task.y, ct[1], ct[2])
        target == IF task.type = "pickup" THEN <<task.x, task.y>> ELSE workPos
        path == findPath(st.tiles, ct[1], ct[2], target[1], target[2])
    IN  /\ task.type # "pickup" => workPos # NoCell
        /\ path # NoPath
        /\ Len(path) > 0

\* the ids of the tasks the pass gives to the colonists registered before ci
TakenBefore(after, ci) ==
    {after.colonists[j].task.id :
        j \in {n \in 1 .. ci - 1 : isIdle(colonists[n]) /\ ~isCarrying(colonists[n])
                                     /\ after.colonists[n].task # NoTask}}

\* the queue positions open to colonist ci when its turn comes
Candidates(after, ci) ==
    {k \in 1 .. Len(Queue0.tasks) :
        /\ Queue0.tasks[k].assigned = -1
        /\ Queue0.tasks[k].id \notin TakenBefore(after, ci)
        /\ Feasible(Queue0, ci, Queue0.tasks[k])}

\* C20: in one pass of assignTasks the colonists are served in the order
\* of registration, and each idle colonist that carries nothing gets the
\* earliest task in the queue that is unassigned when its turn comes and
\* for which a work position and a path are found; tasks before it that
\* are not feasible for it do not stop the scan and are not assigned to it
C20_EarliestFeasibleTask ==
    LET after == assignTasks(State)
    IN  /\ \A ci \in 1 .. Len(colonists) :
              (isIdle(colonists[ci]) /\ ~isCarrying(colonists[ci])) =>
                  LET cand == Candidates(after, ci)
                  IN  IF cand = {} THEN after.colonists[ci].task = NoTask
                      ELSE /\ after.colonists[ci].task.id = Queue0.tasks[SetMin(cand)].id
                           /\ after.tasks[SetMin(cand)].assigned = colonists[ci].id
                           /\ after.colonists[ci].path # <<>>
        /\ Len(after.tasks) = Len(Queue0.tasks)
        /\ \A k \in 1 .. Len(Queue0.tasks) :
              (Queue0.tasks[k].assigned = -1 /\ after.tasks[k].assigned # -1) =>
                  \E ci \in 1 .. Len(colonists) :
                      /\ isIdle(colonists[ci])
                      /\ after.tasks[k].assigned = colonists[ci].id
                      /\ k = SetMin(Candidates(after, ci))

\* the pass skips an unassigned task with no work position for the first
\* colonist and gives that colonist a later task of the queue
C20_Witness ==
    LET after == assignTasks(State)
    IN  \E a, b \in 1 .. Len(tasks) :
            /\ a < b
            /\ isIdle(colonists[1])
            /\ ~isCarrying(colonists[1])
            /\ tasks[a].assigned = -1
            /\ tasks[b].assigned = -1
            /\ ~Feasible(State, 1, tasks[a])
            /\ after.tasks[a].assigned = -1
            /\ after.tasks[b].assigned = colonists[1].id

----------------------------------------------------------------------------
(* Rejected task requests (Spec).                                          *)

\* C21: createBuildTask for a building whose cost the stored stacks cannot
\* pay returns no task and leaves the state, item stacks included, as it
\* was, and the click queues nothing, not even the demolish task of a door
\* over a wall
C21_UnaffordableBuildRejected ==
    \A c \in Cells, b \in BuildTypes :
        ~canAfford(itemStacks, BuildingCost(b)) =>
            /\ createBuildTask(State, c[1], c[2], b) = [task |-> NoTask, st |-> State]
            /\ handleClickBuild(State, c[1], c[2], b) = State

\* a wall stands and the store cannot pay for a door: the door-over-wall
\* request is turned down
C21_Witness ==
    \E c \in Cells :
        /\ tiles[c] = WALL
        /\ ~canAfford(itemStacks, BuildingCost("door"))
        /\ createBuildTask(State, c[1], c[2], "door").task = NoTask

\* the queue holds a build task of this building for the cell
ExistsBuild(x, y, buildType) ==
    \E k \in 1 .. Len(tasks) :
        /\ tasks[k].type = "build"
        /\ tasks[k].x = x
        /\ tasks[k].y = y
        /\ tasks[k].buildType = buildType

\* the queue holds the demolish task of a door-over-wall request for the cell
ExistsDoorOverWall(x, y) ==
    \E k \in 1 .. Len(tasks) :
        /\ tasks[k].type = "demolish"
        /\ tasks[k].x = x
        /\ tasks[k].y = y
        /\ tasks[k].followUp # -1

\* C22: a request for a target that already has a queued task of the same
\* kind (gather, demolish, build, door over a wall) is turned down: the
\* factory returns no task, the queue stays as it is and no cost is paid
C22_DuplicateRequestRejected ==
    \A c \in Cells :
        /\ ExistsTask(State, "gather", c[1], c[2]) =>
              /\ createGatherTask(State, c[1], c[2]) = [task |-> NoTask, st |-> State]
              /\ handleClickNormal(State, c[1], c[2]).tasks = tasks
        /\ ExistsTask(State, "demolish", c[1], c[2]) =>
              /\ createDemolishTask(State, c[1], c[2]) = [task |-> NoTask, st |-> State]
              /\ handleClickDemolish(State, c[1], c[2]) = State
        /\ \A b \in BuildTypes :
              ExistsBuild(c[1], c[2], b) =>
                  /\ createBuildTask(State, c[1], c[2], b) = [task |-> NoTask, st |-> State]
                  /\ handleClickBuild(State, c[1], c[2], b) = State
        /\ ExistsDoorOverWall(c[1], c[2]) =>
              /\ createBuildTask(State, c[1], c[2], "door") = [task |-> NoTask, st |-> State]
              /\ handleClickBuild(State, c[1], c[2], "door") = State

\* two build tasks of the same building wait in the queue for the same
\* cell, both paid for
C22_Witness ==
    \E a, b \in 1 .. Len(tasks) :
        /\ a < b
        /\ tasks[a].type = "build"
        /\ tasks[b].type = "build"
        /\ tasks[a].x = tasks[b].x
        /\ tasks[a].y = tasks[b].y
        /\ tasks[a].buildType = tasks[b].buildType
        /\ ~tasks[a].pendingAfterDemolish
        /\ ~tasks[b].pendingAfterDemolish

\* the part of C22 the factories keep: a second gather or demolish request
\* for a target is turned down
C22_GatherDemolishDuplicateRejected ==
    \A c \in Cells :
        /\ ExistsTask(State, "gather", c[1], c[2]) =>
              createGatherTask(State, c[1], c[2]) = [task |-> NoTask, st |-> State]
        /\ ExistsTask(State, "demolish", c[1], c[2]) =>
              createDemolishTask(State, c[1], c[2]) = [task |-> NoTask, st |-> State]


----------------------------------------------------------------------------
(* The route attached with a queued task (Spec).                           *)

FourAdjacent(a, b) == Abs(a[1] - b[1]) + Abs(a[2] - b[2]) = 1

\* colonist ci is given a queued task by the pass that leads to after
Committed(after, ci) ==
    /\ colonists[ci].task = NoTask
    /\ after.colonists[ci].task # NoTask
    /\ after.colonists[ci].task.type # "haul"

\* C23: whenever assignTasks commits a queued task to a colonist, the route
\* it attaches is not empty, starts at the colonist's cell and ends, for a
\* pickup task, on the cell of the stack, and for any other task on a
\* walkable cell 4-adjacent to the task's target
C23_RouteEndsAtWorkPlace ==
    LET after == assignTasks(State)
    IN  \A ci \in 1 .. Len(colonists) :
            Committed(after, ci) =>
                LET d == after.colonists[ci]
                    last == d.path[Len(d.path)]
                IN  /\ d.path # <<>>
                    /\ d.path[1] = getColonistTile(colonists[ci])
                    /\ IF d.task.type = "pickup"
                       THEN last = <<d.task.x, d.task.y>>
                       ELSE /\ isWalkable(tiles, last[1], last[2])
                            /\ FourAdjacent(last, <<d.task.x, d.task.y>>)

\* a pickup task is committed while the cell of its stack is not walkable
C23_Witness ==
    LET after == assignTasks(State)
    IN  \E ci \in 1 .. Len(colonists) :
            /\ Committed(after, ci)
            /\ after.colonists[ci].task.type = "pickup"
            /\ ~isWalkable(tiles, after.colonists[ci].task.x, after.colonists[ci].task.y)

\* the part of C23 about tasks other than pickups
C23_RouteEndsNextToTarget ==
    LET after == assignTasks(State)
    IN  \A ci \in 1 .. Len(colonists) :
            (Committed(after, ci) /\ after.colonists[ci].task.type # "pickup") =>
                LET d == after.colonists[ci]
                    last == d.path[Len(d.path)]
                IN  /\ d.path # <<>>
                    /\ d.path[1] = getColonistTile(colonists[ci])
                    /\ isWalkable(tiles, last[1], last[2])
                    /\ FourAdjacent(last, <<d.task.x, d.task.y>>)


----------------------------------------------------------------------------
(* The scheduler and a colonist with its hands full.                       *)

CarrierWaits ==
    \E ci \in 1 .. Len(colonists) :
        /\ isIdle(colonists[ci])
        /\ isCarrying(colonists[ci])
        /\ assignTasks(State).colonists[ci] = colonists[ci]

----------------------------------------------------------------------------
(* Route, target and progress of a colonist between frames (Spec).         *)

\* C25: between frames every colonist that holds a task has a route that
\* is not empty and a movement target
C25_TaskHolderHasRoute ==
    \A ci \in 1 .. Len(colonists) :
        colonists[ci].task # NoTask =>
            /\ colonists[ci].path # <<>>
            /\ colonists[ci].targetX # -1
            /\ colonists[ci].targetY # -1

\* a colonist holds a queued task assigned to it and has neither route nor
\* target
C25_Witness ==
    \E ci \in 1 .. Len(colonists) :
        /\ colonists[ci].path = <<>>
        /\ colonists[ci].targetX = -1
        /\ \E k \in 1 .. Len(tasks) :
              /\ tasks[k].id = colonists[ci].task.id
              /\ tasks[k].assigned = colonists[ci].id


\* colonist c stands at a work position: on the last waypoint of its route
\* and, unless its task is a pickup or a haul, 4-adjacent to the task's target
AtWorkPosition(c) ==
    /\ c.task # NoTask
    /\ isAtPathEnd(c)
    /\ c.task.type \notin {"pickup", "haul"} => isAdjacent(c, c.task.x, c.task.y)

ProgressOnlyAtWorkPosition ==
    \A ci \in 1 .. Len(colonists) :
        colonists[ci].workProgress > 0 => AtWorkPosition(colonists[ci])

Reset(c) ==
    /\ c.workProgress = 0
    /\ c.path = <<>>
    /\ c.pathIndex = 0
    /\ c.targetX = -1
    /\ c.targetY = -1

\* between frames every colonist that has no task and is not wandering has
\* zero work progress, an empty route, waypoint index zero and no target
IdleColonistIsReset ==
    \A ci \in 1 .. Len(colonists) :
        (colonists[ci].task = NoTask /\ ~colonists[ci].wandering) => Reset(colonists[ci])

\* a step that takes a colonist's task away (completion, forced release or
\* the cancel button) resets its work progress, route, waypoint index and
\* target in that same step
ClearedTaskResets ==
    \A ci \in 1 .. Len(colonists) :
        (colonists[ci].task # NoTask /\ colonists'[ci].task = NoTask) =>
            Reset(colonists'[ci])

\* C27: whenever a colonist's task is cleared its work progress, route,
\* waypoint index and target are reset in the same step, and so every
\* colonist with no task that is not wandering has them reset
C27_TaskClearedMeansReset == []IdleColonistIsReset /\ [][ClearedTaskResets]_vars

\* a colonist that walked to a task and worked on it is without a task again
C27_Witness ==
    \E ci \in 1 .. Len(colonists) :
        /\ colonists[ci].task = NoTask
        /\ ~colonists[ci].wandering
        /\ Reset(colonists[ci])
        /\ \E c \in Cells : tiles[c] \in {STUMP, RUBBLE}

----------------------------------------------------------------------------
(* The order of the phases of a frame (Spec).                              *)

\* the queue positions of the pickup tasks this frame's synthesis adds
NewPickups == Len(tasks) + 1 .. Len(Queue0.tasks)

\* C28: in a frame the pickup synthesis comes before every assignment and
\* the assignments before every movement or work step: the pass assigns
\* over the queue with the new pickup tasks in it, and a pickup task added
\* in a frame that is the first feasible task of an idle colonist is given
\* to that colonist, whose movement or work step runs, in the same frame
C28_SynthesisAssignmentMovement ==
    LET after == assignTasks(State)
    IN  /\ after = AssignLoop(Queue0, 1)
        /\ \A k \in NewPickups :
              /\ Queue0.tasks[k].type = "pickup"
              /\ \A ci \in 1 .. Len(colonists) :
                    (/\ isIdle(colonists[ci])
                     /\ ~isCarrying(colonists[ci])
                     /\ Candidates(after, ci) # {}
                     /\ SetMin(Candidates(after, ci)) = k) =>
                        /\ after.tasks[k].assigned = colonists[ci].id
                        /\ after.colonists[ci].task.id = Queue0.tasks[k].id
                        /\ \A w \in WanderDraws(after) :
                              updateColonists(after, w).colonists[ci] # after.colonists[ci]

\* a stack lies on the ground with no pickup task yet, and the frame to
\* come adds the task and gives it to an idle colonist
C28_Witness ==
    \E k \in NewPickups :
        \E ci \in 1 .. Len(colonists) :
            /\ isIdle(colonists[ci])
            /\ assignTasks(State).tasks[k].assigned = colonists[ci].id
            /\ assignTasks(State).colonists[ci].targetX # -1

\* the number of pickup tasks for a stack in a queue
PickupsFor(ts, stackId) ==
    Cardinality({k \in 1 .. Len(ts) : ts[k].type = "pickup" /\ ts[k].stackId = stackId})

\* some storage cell takes the stack: it is empty or holds a stack of the type
HasDestination(s) ==
    findAvailableStockpile(itemStacks, stockpiles, s.type, s.x, s.y) # NoCell

\* C29: after the synthesis step of a frame every ground stack for which a
\* storage cell exists that takes it has exactly one pickup task in the
\* queue, and the step adds no pickup task for a ground stack that no
\* storage cell takes
C29_OnePickupPerHaulableStack ==
    /\ \A i \in 1 .. Len(itemStacks) :
          (itemStacks[i].location = "ground" /\ HasDestination(itemStacks[i])) =>
              PickupsFor(Queue0.tasks, itemStacks[i].id) = 1
    /\ \A k \in NewPickups :
          \E i \in 1 .. Len(itemStacks) :
              /\ itemStacks[i].location = "ground"
              /\ itemStacks[i].id = Queue0.tasks[k].stackId
              /\ HasDestination(itemStacks[i])
    /\ \A i \in 1 .. Len(itemStacks) :
          (itemStacks[i].location = "ground" /\ ~HasDestination(itemStacks[i])) =>
              PickupsFor(Queue0.tasks, itemStacks[i].id) = PickupsFor(tasks, itemStacks[i].id)

\* two stacks lie on the ground without pickup tasks, wood that no storage
\* cell takes and stone that the stone in store takes: the synthesis adds
\* a task for the stone only
C29_Witness ==
    \E i, j \in 1 .. Len(itemStacks) :
        /\ itemStacks[i].location = "ground"
        /\ itemStacks[j].location = "ground"
        /\ ~HasDestination(itemStacks[i])
        /\ HasDestination(itemStacks[j])
        /\ PickupsFor(tasks, itemStacks[j].id) = 0
        /\ PickupsFor(Queue0.tasks, itemStacks[j].id) = 1
        /\ PickupsFor(Queue0.tasks, itemStacks[i].id) = 0

----------------------------------------------------------------------------
(* The build site (Spec).                                                  *)

\* the turn of colonist ci reaches the first unit of work of a build task
StartsBuild(before, ci) ==
    LET d == updateColonistMovement(before, ci).colonists[ci]
    IN  /\ ~before.colonists[ci].wandering
        /\ d.task.type = "build"
        /\ isAtPathEnd(d)
        /\ isAdjacent(d, d.task.x, d.task.y)
        /\ d.workProgress = 0

FoundationLaid ==
    \E ci \in 1 .. Len(colonists) :
        LET before == TurnsBefore(assignTasks(State), 1, ci,
                                  [i \in 1 .. Len(colonists) |-> NoCell])
            task == before.colonists[ci].task
        IN  /\ StartsBuild(before, ci)
            /\ before.tiles[<<task.x, task.y>>] # FOUNDATION
            /\ updateColonist(before, ci, NoCell).tiles[<<task.x, task.y>>] = FOUNDATION

----------------------------------------------------------------------------
(* The selected room (Spec).                                               *)

\* C31: in every state the selection is empty or is the id of a stored
\* room, and a rescan of the grid leaves it so
C31_SelectionIsStoredRoom ==
    /\ selectedRoom = -1 \/ \E i \in 1 .. Len(rooms) : rooms[i].id = selectedRoom
    /\ LET r == Rescan(State)
       IN  r.selectedRoom = -1 \/ \E i \in 1 .. Len(r.rooms) : r.rooms[i].id = r.selectedRoom

\* a room is selected and a colonist is about to finish demolishing a wall:
\* the rescan of the completion drops the selection
C31_Witness ==
    /\ selectedRoom # -1
    /\ \E ci \in 1 .. Len(colonists) :
          /\ colonists[ci].task.type = "demolish"
          /\ colonists[ci].workProgress > 0
          /\ AtWorkPosition(colonists[ci])
          /\ completeDemolish(State, ci).selectedRoom = -1

----------------------------------------------------------------------------
(* Storage lookup on its own: up to MaxStockpiles storage cells in the     *)
(* order they were built, each empty or holding one stored stack.          *)

MaxStockpiles == 3

StockpileDraws ==
    {sp \in UNION {[1 .. n -> Cells] : n \in 0 .. MaxStockpiles} :
        \A i, j \in 1 .. Len(sp) : i # j => sp[i] # sp[j]}

\* the stored stacks of a draw: cell i holds what[i], "none" for nothing
RECURSIVE StoredDraw(_, _, _)
StoredDraw(sp, what, i) ==
    IF i > Len(sp) THEN <<>>
    ELSE LET rest == StoredDraw(sp, what, i + 1)
         IN  IF what[i] = "none" THEN rest
             ELSE << createItemStack(i - 1, what[i], 1, "stockpile", sp[i][1], sp[i][2]) >> \o rest

StoreInit ==
    /\ \E sp \in StockpileDraws :
          /\ stockpiles = sp
          /\ tiles = [c \in Cells |-> IF \E i \in 1 .. Len(sp) : sp[i] = c THEN STOCKPILE ELSE GRASS]
          /\ \E what \in [1 .. Len(sp) -> ResourceTypes \cup {"none"}] :
                itemStacks = StoredDraw(sp, what, 1)
    /\ colonists = <<>>
    /\ tasks = <<>>
    /\ rooms = <<>>
    /\ selectedRoom = -1
    /\ nextTaskId = 0
    /\ nextStackId = MaxStockpiles
    /\ nextRoomId = 0
    /\ events = 0
    /\ probe = [op |-> "init", type |-> "none", from |-> NoCell, result |-> NoCell]

FindAvailableStockpile ==
    /\ probe.op = "init"
    /\ \E type \in ResourceTypes, from \in Cells :
          probe' = [op |-> "findAvailableStockpile", type |-> type, from |-> from,
                    result |-> findAvailableStockpile(itemStacks, stockpiles, type,
                                                      from[1], from[2])]
    /\ WorldUnchanged

SpecStore == StoreInit /\ [][FindAvailableStockpile]_vars

StoredTypesAt(c) ==
    {itemStacks[k].type : k \in {n \in 1 .. Len(itemStacks) :
        /\ itemStacks[n].location = "stockpile"
        /\ itemStacks[n].x = c[1]
        /\ itemStacks[n].y = c[2]}}

StorageCells == {stockpiles[i] : i \in 1 .. Len(stockpiles)}

ManhattanFrom(c) == Abs(c[1] - probe.from[1]) + Abs(c[2] - probe.from[2])

Nearest(S) == {c \in S : \A d \in S : ManhattanFrom(c) <= ManhattanFrom(d)}

\* C32: the lookup returns a nearest storage cell already holding the asked
\* type if there is one, else a nearest empty storage cell, else nothing,
\* and never a cell that holds another type
C32_NearestMatchThenNearestEmpty ==
    probe.op = "findAvailableStockpile" =>
        LET match == {c \in StorageCells : probe.type \in StoredTypesAt(c)}
            empty == {c \in StorageCells : StoredTypesAt(c) = {}}
        IN  /\ match # {} => probe.result \in Nearest(match)
            /\ (match = {} /\ empty # {}) => probe.result \in Nearest(empty)
            /\ (match = {} /\ empty = {}) => probe.result = NoCell
            /\ probe.result # NoCell => StoredTypesAt(probe.result) \subseteq {probe.type}

\* a cell of the asked type is chosen although an empty cell and a cell of
\* the other type are both strictly nearer
C32_Witness ==
    /\ probe.op = "findAvailableStockpile"
    /\ probe.result # NoCell
    /\ probe.type \in StoredTypesAt(probe.result)
    /\ \E c, d \in StorageCells :
          /\ StoredTypesAt(c) = {}
          /\ StoredTypesAt(d) # {}
          /\ probe.type \notin StoredTypesAt(d)
          /\ ManhattanFrom(c) < ManhattanFrom(probe.result)
          /\ ManhattanFrom(d) < ManhattanFrom(probe.result)

----------------------------------------------------------------------------
(* The work position and the shape of a returned path (SpecPath).          *)

\* the walkable 4-neighbours of the probed target
WorkNeighbours == {n \in Around(probe.goal) : Walkable(n)}

FromWorker(c) == Abs(c[1] - probe.start[1]) + Abs(c[2] - probe.start[2])

\* C33: findWorkPosition returns the worker's own cell when that is a
\* walkable 4-neighbour of the target, and otherwise a walkable 4-neighbour
\* of the target at minimal Manhattan distance from the worker
C33_WorkPositionNearestNeighbour ==
    probe.op = "findWorkPosition" =>
        /\ probe.start \in WorkNeighbours => probe.workPos = probe.start
        /\ (probe.start \notin WorkNeighbours /\ WorkNeighbours # {}) =>
              /\ probe.workPos \in WorkNeighbours
              /\ \A n \in WorkNeighbours : FromWorker(probe.workPos) <= FromWorker(n)

\* the worker is not next to the target, and the neighbour chosen is not the
\* first one in the order the neighbours are listed
C33_Witness ==
    /\ probe.op = "findWorkPosition"
    /\ probe.start \notin WorkNeighbours
    /\ probe.workPos \in WorkNeighbours
    /\ Walkable(<<probe.goal[1], probe.goal[2] - 1>>)
    /\ probe.workPos # <<probe.goal[1], probe.goal[2] - 1>>
    /\ \E n \in WorkNeighbours : FromWorker(probe.workPos) < FromWorker(n)

\* C34: a path returned by findPath starts at the start, ends at the goal or,
\* for a non-walkable goal, at a walkable neighbour of it, steps between
\* 4-adjacent cells, visits only walkable cells after the start, and is the
\* start alone when the start is the goal or the neighbour that replaces it
C34_ReturnedPathIsWalk ==
    (probe.op = "findPath" /\ probe.path # NoPath) =>
        LET path == probe.path
            end == path[Len(path)]
        IN  /\ Len(path) >= 1
            /\ path[1] = probe.start
            /\ IF Walkable(probe.goal) THEN end = probe.goal ELSE end \in WorkNeighbours
            /\ \A i \in 2 .. Len(path) : FourAdjacent(path[i - 1], path[i]) /\ Walkable(path[i])
            /\ (probe.start = probe.goal \/ (~Walkable(probe.goal) /\ probe.start \in WorkNeighbours))
                  => path = << probe.start >>

\* a path of several steps to a neighbour standing in for a wall
C34_Witness ==
    /\ probe.op = "findPath"
    /\ probe.path # NoPath
    /\ ~Walkable(probe.goal)
    /\ Len(probe.path) >= 3
    /\ probe.path[Len(probe.path)] \in WorkNeighbours

\* the worker stands next to a wall and the path to it is the start alone
C34_StartAlone ==
    /\ probe.op = "findPath"
    /\ ~Walkable(probe.goal)
    /\ probe.start \in WorkNeighbours
    /\ probe.path = << probe.start >>

----------------------------------------------------------------------------
(* Wandering and held tasks come to an end (Spec).                         *)

\* the frame in which no colonist starts to wander changes nothing: from
\* here on frames alone leave the colony as it is
StillFrame == gameLoop(State, [i \in 1 .. Len(colonists) |-> NoCell]) = State

\* C36: a colonist that wanders goes back to idle, with its wandering flag
\* cleared, whether it arrives or its route is blocked; so the frames cannot
\* come to rest while a colonist's wandering flag is set
C36_NoRestWhileWandering ==
    StillFrame => \A ci \in 1 .. Len(colonists) : ~colonists[ci].wandering

\* a colonist with the wandering flag set, no task, no route and no target,
\* in a colony where frames change nothing any more
C36_Witness ==
    /\ StillFrame
    /\ \E ci \in 1 .. Len(colonists) :
          /\ colonists[ci].wandering
          /\ colonists[ci].task = NoTask
          /\ colonists[ci].path = <<>>
          /\ colonists[ci].targetX = -1

\* C37: a task that is assigned is in the end retired or released; so the
\* frames cannot come to rest while a colonist holds a task
C37_NoRestWhileAssigned ==
    StillFrame => \A ci \in 1 .. Len(colonists) : colonists[ci].task = NoTask

\* a colonist holds a queued task that names it, without a route, in a
\* colony where frames change nothing any more
C37_Witness ==
    /\ StillFrame
    /\ \E ci \in 1 .. Len(colonists) :
          /\ colonists[ci].path = <<>>
          /\ \E k \in 1 .. Len(tasks) :
                /\ tasks[k].id = colonists[ci].task.id
                /\ tasks[k].assigned = colonists[ci].id

----------------------------------------------------------------------------
(* Foundations and where colonists stand (Spec).                           *)

\* some colonist holds a build task that targets cell c
HeldBuildAt(c) ==
    \E ci \in 1 .. Len(colonists) :
        /\ colonists[ci].task.type = "build"
        /\ <<colonists[ci].task.x, colonists[ci].task.y>> = c

\* C38: a cell is FOUNDATION only while a colonist holds a build task that
\* targets it
C38_FoundationHasBuilder ==
    \A c \in Cells : tiles[c] = FOUNDATION => HeldBuildAt(c)

\* a foundation cell that no task in the queue and no colonist targets
C38_Witness ==
    \E c \in Cells :
        /\ tiles[c] = FOUNDATION
        /\ ~HeldBuildAt(c)
        /\ \A k \in 1 .. Len(tasks) : <<tasks[k].x, tasks[k].y>> # c

----------------------------------------------------------------------------
(* The cancel button (Spec).                                               *)

\* the state after the cancel button of colonist ci is pressed: the task it
\* held is in no queue slot and no colonist's hands, and the colonist has no
\* task, no route, no target and no progress
CancelClears(ci) ==
    LET id == colonists[ci].task.id
        after == cancelTask(State, colonists[ci].id)
    IN  /\ \A k \in 1 .. Len(after.tasks) : after.tasks[k].id # id
        /\ \A cj \in 1 .. Len(after.colonists) : after.colonists[cj].task.id # id
        /\ after.colonists[ci].task = NoTask
        /\ after.colonists[ci].path = <<>>
        /\ after.colonists[ci].targetX = -1
        /\ after.colonists[ci].targetY = -1
        /\ after.colonists[ci].workProgress = 0

\* C35: cancelling the task of a colonist removes the task from the queue
\* and leaves the colonist idle (no task, not wandering) with an empty
\* route, no target and no progress
C35_CancelRetiresTaskAndIdles ==
    \A ci \in 1 .. Len(colonists) :
        colonists[ci].task # NoTask =>
            /\ CancelClears(ci)
            /\ ~cancelTask(State, colonists[ci].id).colonists[ci].wandering

\* the task, the route, the target and the progress are cleared by every
\* cancellation
C35_CancelClearsTask ==
    \A ci \in 1 .. Len(colonists) : colonists[ci].task # NoTask => CancelClears(ci)

\* a colonist that was given a queued task while it wandered, and still has
\* the wandering flag set after its task is cancelled
C35_Witness ==
    \E ci \in 1 .. Len(colonists) :
        /\ colonists[ci].task # NoTask
        /\ \E k \in 1 .. Len(tasks) : tasks[k].id = colonists[ci].task.id
        /\ CancelClears(ci)
        /\ cancelTask(State, colonists[ci].id).colonists[ci].wandering

----------------------------------------------------------------------------
(* Reachable work positions and the scheduler (SpecPath).                  *)

\* C40: when the idle colonist can reach some walkable 4-neighbour of the
\* target of the queued task, assignTasks gives it the task
C40_ReachableWorkPositionAssigned ==
    (probe.op = "assignTasks"
        /\ \E n \in WorkNeighbours : ShortestDistance(probe.start, n) # -1)
    => (colonists[1].task # NoTask /\ tasks[1].assigned = colonists[1].id)

\* what assignTasks does: the task is given exactly when the one neighbour
\* findWorkPosition picks, the nearest to the colonist by Manhattan distance,
\* can be reached
AssignedWhenNearestReachable ==
    (probe.op = "assignTasks" /\ WorkNeighbours # {}) =>
        LET n == IF probe.start \in WorkNeighbours THEN probe.start
                 ELSE NearestNeighbour(probe.start, probe.goal)
        IN  (colonists[1].task # NoTask) <=> (ShortestDistance(probe.start, n) # -1)

\* the scheduler has left the task in the queue although the colonist can
\* reach a walkable neighbour of its target
C40_Witness ==
    /\ probe.op = "assignTasks"
    /\ \E n \in WorkNeighbours : ShortestDistance(probe.start, n) # -1
    /\ colonists[1].task = NoTask
    /\ tasks[1].assigned = -1

----------------------------------------------------------------------------
(* Where colonists stand (Spec).                                           *)

====
